---------------------------- MODULE Spec2Model ----------------------------
(***************************************************************************)
(* GDB-based DAP bridge (deployments/docker/runtimes/rust-gdb-dap-server): *)
(* the transport loop, the frame decoder, the request handlers, the        *)
(* debugger subprocess as seen through its pipes, and the stop watchers.   *)
(*                                                                         *)
(* Threads: one handler thread (start -> handle_client -> handlers) and    *)
(* one watcher thread per resume command (_wait_for_stop).  The client     *)
(* and the gdb subprocess are environment processes.                       *)
(***************************************************************************)
EXTENDS Integers, Sequences, FiniteSets, TLC

VARIABLES
    running,      \* self.running
    seq,          \* self.seq
    gdb_process,  \* self.gdb_process: 0 is None, otherwise an index into procs
    gdb_lock,     \* self.gdb_lock: "unlocked", or the thread that holds it
    sock,         \* self.client_socket: "none", "open" or "closed"
    buffer,       \* handle_client's local buffer: a sequence of characters
    h,            \* the handler thread: program counter and locals
    watchers,     \* the _wait_for_stop threads started so far
    procs,        \* every gdb subprocess spawned so far
    wire,         \* bytes the client has written and the bridge has not yet read
    client,       \* the client: requests written, connections made, closed or not
    sent,         \* frames written to the client socket, in write order
    hist,         \* history: requests dispatched (and on which connection), handlers
                  \* that raised, gdb command ids
    \* scripts/stress_test.py, the load harness:
    max_requests,     \* main's max_requests: 0 is None
    end_at,           \* main's end_at: 0 is None, 1 is a time yet to come
    next_request_id,  \* next_request_id[0]
    next_lock,        \* next_lock: 0 is free, otherwise the worker that holds it
    workers,          \* the worker threads: program counter and req_id of each
    requests          \* history: the requests the workers have issued

\* The state of the load harness.
harness == <<max_requests, end_at, next_request_id, next_lock, workers, requests>>

vars == <<running, seq, gdb_process, gdb_lock, sock, buffer, h, watchers, procs, wire,
          client, sent, hist, harness>>

---------------------------------------------------------------------------
(* Bounds of the model. *)

MaxReq == 3        \* requests one behaviour's client writes
MaxReqLive == 4    \* the same, in the specification with fairness
MaxReqCodec == 2   \* the same, in the specification of the frame decoder
MaxProcs == 2      \* gdb subprocesses spawned in one behaviour
MaxLaunch == 1     \* launch requests one behaviour's client writes
MaxLaunchLive == 2 \* the same, in the specification with fairness
MaxWatch == 1      \* resume commands (hence watcher threads) in one behaviour
MaxWatchBoth == 2  \* the same, where watcher threads run side by side
MaxBps == 2        \* entries of one setBreakpoints request
MaxConn == 1       \* client connections accepted in one behaviour
MaxWide == 1       \* non-ASCII characters in one request body
MaxBad == 1        \* malformed inputs one behaviour's client writes
MaxConnAgain == 2  \* connections accepted where clients come one after another
MaxRequests == 3   \* the load harness: --requests
MaxConcurrency == 2 \* the load harness: --concurrency
MaxIds == 2        \* the load harness: request ids taken in a run with a duration

---------------------------------------------------------------------------
(* Command names. *)

\* The request handlers the class defines (handle_<command>).
Handlers ==
    {"initialize", "launch", "setBreakpoints", "configurationDone", "threads",
     "stackTrace", "scopes", "variables", "continue", "next", "stepIn",
     "stepOut", "evaluate", "disconnect", "terminate"}

\* Every attribute of the class whose name starts with handle_: getattr in
\* handle_dap_message finds these, the two transport methods included.
HandleAttrs == Handlers \cup {"client", "dap_message"}

ResumeCommands == {"continue", "next", "stepIn", "stepOut"}

\* A command name no attribute matches.
Unknown == "frobnicate"

---------------------------------------------------------------------------
(* Messages. *)

\* stopOnEntry is the argument as the client wrote it: "true", "false", or
\* "absent" when the arguments have no such key.
NoReq == [seq |-> 0, type |-> "none", command |-> "none", stopOnEntry |-> "absent",
          lines |-> <<>>, wide |-> 0]

Request(n, c, soe, ls, wd) ==
    [seq |-> n, type |-> "request", command |-> c, stopOnEntry |-> soe,
     lines |-> ls, wide |-> wd]

NoMsg == [seq |-> 0, type |-> "none", request_seq |-> 0, command |-> "none",
          success |-> FALSE, message |-> <<>>, event |-> "", body |-> "none",
          bps |-> <<>>, reason |-> "", cause |-> 0, by |-> 0, conn |-> 0,
          during |-> 0, part |-> ""]

\* send_response's dict before "seq" is filled in.  body names which body the
\* handler passed; bps is the breakpoint list of a setBreakpoints body.
\* History, filled in when the frame is written: by is the thread that wrote
\* it (0 the handler thread, w the watcher w), conn the connection, during
\* the request the handler thread was handling when it wrote it, part which
\* bytes of the frame one send call wrote ("whole", or "head" and "tail").
Response(req, body, bps, success, message) ==
    [NoMsg EXCEPT !.type = "response", !.request_seq = req.seq,
                  !.command = req.command, !.success = success,
                  !.message = message, !.body = body, !.bps = bps]

\* send_event's dict before "seq" is filled in.  cause (history) is the gdb
\* command whose *stopped line made the sender send the event; 0 otherwise.
Event(event, body, reason, cause) ==
    [NoMsg EXCEPT !.type = "event", !.event = event, !.body = body,
                  !.reason = reason, !.cause = cause]

---------------------------------------------------------------------------
(* Framing.  A body is a string of characters: the JSON text of the message *)
(* (ASCII, carried by one "json" character) and the non-ASCII characters of *)
(* its string values ("u", two bytes each in UTF-8).  The header is the     *)
(* text "Content-Length: <n>" followed by the blank line.                   *)

HdrLen(n) == [k |-> "hdr", n |-> n, m |-> NoReq]
HdrEnd == [k |-> "crlf", n |-> 0, m |-> NoReq]
JsonChar(m) == [k |-> "json", n |-> 0, m |-> m]
WideChar == [k |-> "u", n |-> 0, m |-> NoReq]
\* An ASCII character that is part of neither a header nor a JSON text.
Garbage == [k |-> "text", n |-> 0, m |-> NoReq]
\* A JSON text that is not an object, such as [].
NotAnObject == [NoReq EXCEPT !.type = "array"]

BodyChars(m) == <<JsonChar(m)>> \o [i \in 1..m.wide |-> WideChar]

\* UTF-8 encoding of a string: one byte per ASCII character, two per "u".
RECURSIVE Utf8Encode(_)
Utf8Encode(chars) ==
    IF chars = <<>> THEN <<>>
    ELSE LET c == Head(chars)
         IN  (IF c.k = "u" THEN <<[c |-> c, part |-> 1], [c |-> c, part |-> 2]>>
              ELSE <<[c |-> c, part |-> 0]>>) \o Utf8Encode(Tail(chars))

\* The frame a DAP client writes for message m: Content-Length is the byte
\* length of the UTF-8 body.
ClientFrame(m) ==
    LET body == Utf8Encode(BodyChars(m))
    IN  Utf8Encode(<<HdrLen(Len(body)), HdrEnd>>) \o body

\* data.decode('utf-8') of one received chunk succeeds iff the chunk neither
\* starts nor ends inside a character (UnicodeDecodeError otherwise).
RECURSIVE Utf8Valid(_)
Utf8Valid(bytes) ==
    IF bytes = <<>> THEN TRUE
    ELSE IF bytes[1].part = 0 THEN Utf8Valid(Tail(bytes))
    ELSE IF bytes[1].part = 1 /\ Len(bytes) >= 2 /\ bytes[2].part = 2
    THEN Utf8Valid(Tail(Tail(bytes)))
    ELSE FALSE

\* The characters of a valid chunk.
RECURSIVE Utf8Decode(_)
Utf8Decode(bytes) ==
    IF bytes = <<>> THEN <<>>
    ELSE IF bytes[1].part = 0 THEN <<bytes[1].c>> \o Utf8Decode(Tail(bytes))
    ELSE <<bytes[1].c>> \o Utf8Decode(Tail(Tail(bytes)))

\* re.match(r'Content-Length: (\d+)\r\n\r\n', buffer): anchored at the start.
HeaderMatch(buf) == Len(buf) >= 2 /\ buf[1].k = "hdr" /\ buf[2].k = "crlf"
header_length == 2

\* len(buffer) >= header_length + content_length, counted in characters.
FrameComplete(buf) == HeaderMatch(buf) /\ Len(buf) >= header_length + buf[1].n

FrameBody(buf) == SubSeq(buf, header_length + 1, header_length + buf[1].n)
FrameRest(buf) == SubSeq(buf, header_length + buf[1].n + 1, Len(buf))

\* json.loads(message): the text parses iff it is exactly one JSON text with
\* all the characters of its strings.
JsonOk(chars) ==
    /\ Len(chars) >= 1
    /\ chars[1].k = "json"
    /\ Len(chars) = 1 + chars[1].m.wide
    /\ \A i \in 2..Len(chars) : chars[i].k = "u"
JsonLoads(chars) == chars[1].m

---------------------------------------------------------------------------
(* The gdb subprocess, seen through its pipes.  A line of its output is    *)
(* [k, c]: k is the kind of MI record, c (history) the id of the command   *)
(* it answers, 0 for the startup banner.                                   *)

Line(k, c) == [k |-> k, c |-> c]

\* "(gdb)" in line or "^done" in line or "^error" in line
IsCompletion(l) == l.k \in {"done", "error", "prompt"}
\* "done" in line.lower()
HasDone(l) == l.k = "done"
\* "*stopped" in line
IsStopped(l) == l.k \in {"stopped_bp", "stopped_step", "stopped_exit"}

ExecCommands == {"-exec-run", "-exec-continue", "-exec-next", "-exec-step",
                 "-exec-finish"}

\* A process as Popen returns it.  req (history) is the launch request that
\* spawned it.
NewProc == [st |-> "alive", booted |-> FALSE, stdin |-> <<>>, out |-> <<>>,
            dbg |-> 0, em |-> {}, req |-> 0]

\* What one thread's readline on process p's stdout can do now: a line is
\* there, or the pipe is at end of file, or the call blocks.
CanReadLine(p) == procs[p].out /= <<>>
AtEof(p) == procs[p].out = <<>> /\ procs[p].st = "dead"

\* subprocess.Popen.terminate(): SIGTERM, and nothing for a process that has
\* already exited.
Terminated(ps, p) ==
    IF ps[p].st = "alive" THEN [ps EXCEPT ![p].st = "signalled"] ELSE ps

\* gdb prints its banner and first prompt.
GdbStartup(p) ==
    /\ procs[p].st /= "dead" /\ ~procs[p].booted
    /\ procs' = [procs EXCEPT ![p].booted = TRUE,
                              ![p].out = Append(@, Line("prompt", 0)),
                              ![p].em = @ \cup {Line("prompt", 0)}]
    /\ UNCHANGED <<harness, gdb_lock, running, seq, gdb_process, sock, buffer, h, watchers, wire,
                   client, sent, hist>>

\* gdb reads the next command and prints its result record and the prompt:
\* ^done or ^error for a query, ^running or ^error for an execution command.
\* -gdb-exit prints ^exit and ends the process.
GdbRespond(p) ==
    /\ procs[p].st /= "dead" /\ procs[p].booted /\ procs[p].stdin /= <<>>
    /\ LET cmd == Head(procs[p].stdin)
           rest == [procs EXCEPT ![p].stdin = Tail(@)]
           emit(ps, ls) ==
               [ps EXCEPT ![p].out = @ \o ls,
                          ![p].em = @ \cup {ls[i] : i \in 1..Len(ls)}]
       IN  IF cmd.k = "-gdb-exit"
           THEN procs' = [emit(rest, <<Line("exit", cmd.id)>>) EXCEPT ![p].st = "dead"]
           ELSE \E ok \in BOOLEAN :
                  IF ~ok
                  THEN procs' = emit(rest, <<Line("error", cmd.id), Line("prompt", cmd.id)>>)
                  ELSE IF cmd.k \in ExecCommands
                  THEN procs' = [emit(rest, <<Line("running", cmd.id),
                                              Line("prompt", cmd.id)>>)
                                   EXCEPT ![p].dbg = cmd.id]
                  ELSE procs' = emit(rest, <<Line("done", cmd.id), Line("prompt", cmd.id)>>)
    /\ UNCHANGED <<harness, gdb_lock, running, seq, gdb_process, sock, buffer, h, watchers, wire,
                   client, sent, hist>>

StopKinds == {"stopped_bp", "stopped_step", "stopped_exit"}

\* The debuggee, resumed by command dbg, stops: gdb prints the *stopped record
\* and the prompt.
GdbStop(p) ==
    /\ procs[p].st /= "dead" /\ procs[p].dbg /= 0
    /\ \E k \in StopKinds :
         LET ls == <<Line(k, procs[p].dbg), Line("prompt", procs[p].dbg)>>
         IN  procs' = [procs EXCEPT ![p].out = @ \o ls,
                                    ![p].em = @ \cup {ls[1], ls[2]},
                                    ![p].dbg = 0]
    /\ UNCHANGED <<harness, gdb_lock, running, seq, gdb_process, sock, buffer, h, watchers, wire,
                   client, sent, hist>>

\* The process ends after SIGTERM.
GdbExit(p) ==
    /\ procs[p].st = "signalled"
    /\ procs' = [procs EXCEPT ![p].st = "dead", ![p].stdin = <<>>]
    /\ UNCHANGED <<harness, gdb_lock, running, seq, gdb_process, sock, buffer, h, watchers, wire,
                   client, sent, hist>>

\* The process ends on its own (a crash, or the operating system killing it).
GdbCrash(p) ==
    /\ procs[p].st = "alive"
    /\ procs' = [procs EXCEPT ![p].st = "dead", ![p].stdin = <<>>]
    /\ UNCHANGED <<harness, gdb_lock, running, seq, gdb_process, sock, buffer, h, watchers, wire,
                   client, sent, hist>>

---------------------------------------------------------------------------
(* State after GDBDAPServer.__init__, before start() accepts a client. *)

Idle == [pc |-> "accept", req |-> NoReq, ret |-> "none", msg |-> NoMsg, tmp |-> 0,
         i |-> 0, out |-> <<>>, res |-> <<>>, tried |-> FALSE, cmd |-> 0]

Init ==
    /\ running = TRUE
    /\ seq = 0
    /\ gdb_process = 0
    /\ gdb_lock = "unlocked"
    /\ sock = "none"
    /\ buffer = <<>>
    /\ h = Idle
    /\ watchers = <<>>
    /\ procs = <<>>
    /\ wire = <<>>
    /\ client = [n |-> 0, conn |-> 0, closed |-> FALSE, launches |-> 0, resumes |-> 0,
                 reqs |-> <<>>, bad |-> 0]
    /\ sent = <<>>
    /\ hist = [dispatched |-> <<>>, conns |-> <<>>, raised |-> {}, cmds |-> <<>>]
    /\ max_requests = 0
    /\ end_at = 0
    /\ next_request_id = 0
    /\ next_lock = 0
    /\ workers = <<>>
    /\ requests = <<>>

---------------------------------------------------------------------------
(* The client. *)

\* The breakpoint lines of a setBreakpoints request with n entries.
BpLines(n) == [i \in 1..n |-> 10 * i]

\* The requests a client may write, by command name.  Only the arguments a
\* handler reads vary: stopOnEntry of launch, the entries of setBreakpoints,
\* the non-ASCII characters of an evaluate expression.
Shapes(cmds) ==
    {Request(0, c, soe, BpLines(n), wd) :
        c \in cmds, soe \in {"true", "false", "absent"}, n \in 0..MaxBps,
        wd \in 0..MaxWide}

\* A client: the commands it uses, how many requests and launch requests it
\* writes, how many non-ASCII characters it puts in a body, and the values
\* it gives stopOnEntry.  It writes at most maxResume resume requests.
Client(cmds, maxReq, maxWide, maxLaunch, entry) ==
    [cmds |-> cmds, maxReq |-> maxReq, maxWide |-> maxWide, maxLaunch |-> maxLaunch,
     entry |-> entry, maxResume |-> MaxWatch]

WellShaped(r) ==
    /\ (r.command /= "launch" => r.stopOnEntry = "absent")
    /\ (r.command /= "setBreakpoints" => r.lines = <<>>)
    /\ (r.command /= "evaluate" => r.wide = 0)

\* The client writes the frame of its next request; requests are numbered
\* from 1 in the order written.  A frame written while a handler runs waits
\* unread until the handler thread is back in recv, so the write is taken
\* to happen then: several frames written before one recv arrive together.
ClientSend(cl) ==
    /\ sock = "open" /\ ~client.closed /\ client.n < cl.maxReq
    /\ h.pc = "recv"
    /\ \E r \in Shapes(cl.cmds) :
         /\ WellShaped(r) /\ r.wide <= cl.maxWide
         /\ r.command = "launch" =>
               client.launches < cl.maxLaunch /\ r.stopOnEntry \in cl.entry
         /\ r.command \in ResumeCommands => client.resumes < cl.maxResume
         /\ wire' = wire \o ClientFrame([r EXCEPT !.seq = client.n + 1])
         /\ client' = [client EXCEPT
                         !.n = @ + 1,
                         !.reqs = Append(@, [r EXCEPT !.seq = client.n + 1]),
                         !.launches = @ + (IF r.command = "launch" THEN 1 ELSE 0),
                         !.resumes = @ + (IF r.command \in ResumeCommands THEN 1 ELSE 0)]
    /\ UNCHANGED <<harness, gdb_lock, running, seq, gdb_process, sock, buffer, h, watchers, procs,
                   sent, hist>>

\* What a client may write that is not a well-formed request: bytes that
\* form no header, a complete frame whose body is not JSON, a complete frame
\* whose body is JSON but no object.
Malformed ==
    {<<Garbage>>,
     <<HdrLen(1), HdrEnd, Garbage>>,
     <<HdrLen(1), HdrEnd, JsonChar(NotAnObject)>>}

ClientSendMalformed ==
    /\ sock = "open" /\ ~client.closed /\ client.bad < MaxBad
    /\ h.pc = "recv"
    /\ \E chars \in Malformed : wire' = wire \o Utf8Encode(chars)
    /\ client' = [client EXCEPT !.bad = @ + 1]
    /\ UNCHANGED <<harness, gdb_lock, running, seq, gdb_process, sock, buffer, h, watchers, procs,
                   sent, hist>>

\* The client closes its end of the connection.
ClientClose ==
    /\ sock = "open" /\ ~client.closed
    /\ client' = [client EXCEPT !.closed = TRUE]
    /\ UNCHANGED <<harness, gdb_lock, running, seq, gdb_process, sock, buffer, h, watchers, procs,
                   wire, sent, hist>>

---------------------------------------------------------------------------
(* start() and handle_client(): the transport loop of the handler thread. *)

\* An exception leaves the current handler: handle_client's except clause
\* prints it and the finally clause runs.
Raised(exc) == [hist EXCEPT !.raised = @ \cup {[req |-> h.req.seq, exc |-> exc]}]

\* accept with a thread per connection: a client is accepted while the
\* handling loop of the previous one waits in recv.
accept_Concurrent(maxConn) ==
    /\ h.pc \in {"accept", "recv"}
    /\ running /\ client.conn < maxConn
    /\ sock' = "open"
    /\ buffer' = <<>>
    /\ wire' = <<>>
    /\ client' = [client EXCEPT !.conn = @ + 1, !.closed = FALSE]
    /\ h' = [Idle EXCEPT !.pc = "recv"]
    /\ UNCHANGED <<harness, gdb_lock, running, seq, gdb_process, watchers, procs, sent, hist>>

\* start(): while self.running: accept(); handle_client()
\* The same GDBDAPServer object serves every connection: accept assigns
\* self.client_socket and handle_client starts with an empty buffer; no other
\* attribute is assigned.  maxConn bounds the connections of a behaviour.
accept(maxConn) ==
    /\ h.pc = "accept"
    /\ IF running
       THEN /\ client.conn < maxConn
            /\ sock' = "open"
            /\ buffer' = <<>>
            /\ wire' = <<>>
            /\ client' = [client EXCEPT !.conn = @ + 1, !.closed = FALSE]
            /\ h' = [Idle EXCEPT !.pc = "recv"]
       ELSE /\ h' = [Idle EXCEPT !.pc = "exit"]
            /\ UNCHANGED <<harness, sock, buffer, wire, client>>
    /\ UNCHANGED <<harness, gdb_lock, running, seq, gdb_process, watchers, procs, sent, hist>>

start == accept(MaxConn)

\* handle_client: while self.running: data = recv(4096); buffer += data.decode()
\* The chunk is the first k bytes the client has written.
recv(k) ==
    /\ h.pc = "recv" /\ running
    /\ k \in 1..Len(wire)
    /\ LET data == SubSeq(wire, 1, k)
       IN  /\ wire' = SubSeq(wire, k + 1, Len(wire))
           /\ IF Utf8Valid(data)
              THEN /\ buffer' = buffer \o Utf8Decode(data)
                   /\ h' = [h EXCEPT !.pc = "parse", !.req = NoReq]
                   /\ hist' = hist
              ELSE /\ h' = [h EXCEPT !.pc = "finally"]
                   /\ hist' = Raised("UnicodeDecodeError")
                   /\ buffer' = buffer
    /\ UNCHANGED <<harness, gdb_lock, running, seq, gdb_process, sock, watchers, procs, client, sent>>

\* recv returns everything the client has written so far.
recv_all == recv(Len(wire))

\* recv returns any non-empty prefix of what the client has written.
recv_some == \E k \in 1..Len(wire) : recv(k)

\* recv returns b'' (the client closed): break.  Or self.running is false.
recv_end ==
    /\ h.pc = "recv"
    /\ ~running \/ (wire = <<>> /\ client.closed)
    /\ h' = [h EXCEPT !.pc = "finally"]
    /\ UNCHANGED <<harness, gdb_lock, running, seq, gdb_process, sock, buffer, watchers, procs, wire,
                   client, sent, hist>>

\* The inner while True: take the next complete frame off the buffer and hand
\* json.loads(message) to handle_dap_message; break when there is none.
\* handle_dap_message starts with message.get("type"), which raises
\* AttributeError on a list, a number or a string.
parse ==
    /\ h.pc = "parse"
    /\ IF ~FrameComplete(buffer)
       THEN /\ h' = [h EXCEPT !.pc = "recv"]
            /\ UNCHANGED <<harness, buffer, hist>>
       ELSE /\ buffer' = FrameRest(buffer)
            /\ IF ~JsonOk(FrameBody(buffer))
               THEN /\ h' = [h EXCEPT !.pc = "finally"]
                    /\ hist' = Raised("JSONDecodeError")
               ELSE LET m == JsonLoads(FrameBody(buffer))
                    IN  IF m = NotAnObject
                        THEN /\ h' = [h EXCEPT !.pc = "finally"]
                             /\ hist' = Raised("AttributeError")
                        ELSE IF m.type = "request"
                        THEN /\ h' = [Idle EXCEPT !.pc = "dispatch", !.req = m]
                             /\ hist' = [hist EXCEPT !.dispatched = Append(@, m),
                                                     !.conns = Append(@, client.conn)]
                        ELSE /\ h' = h
                             /\ hist' = hist
    /\ UNCHANGED <<harness, gdb_lock, running, seq, gdb_process, sock, watchers, procs, wire, client,
                   sent>>

\* handle_client_finally without the terminate().
handle_client_finally_NoTerminate ==
    /\ h.pc = "finally"
    /\ procs' = procs
    /\ sock' = "closed"
    /\ h' = [h EXCEPT !.pc = "accept"]
    /\ UNCHANGED <<harness, gdb_lock, running, seq, gdb_process, buffer, watchers, wire, client, sent,
                   hist>>

\* finally: terminate the gdb process if there is one, close the socket.
handle_client_finally ==
    /\ h.pc = "finally"
    /\ procs' = IF gdb_process /= 0 THEN Terminated(procs, gdb_process) ELSE procs
    /\ sock' = "closed"
    /\ h' = [h EXCEPT !.pc = "accept"]
    /\ UNCHANGED <<harness, gdb_lock, running, seq, gdb_process, buffer, watchers, wire, client, sent,
                   hist>>

---------------------------------------------------------------------------
(* send_response / send_event / send_message, as steps of a thread t whose  *)
(* locals are the record t.  self.seq += 1 is a load and a store; the dict  *)
(* then reads self.seq again; sendall writes the frame.                     *)

\* The thread starts sending msg and continues at ret afterwards.
CallSend(t, msg, ret) == [t EXCEPT !.pc = "send_load", !.msg = msg, !.ret = ret]

\* self.seq += 1: read self.seq
SendLoad(t) == [t EXCEPT !.pc = "send_store", !.tmp = seq]
\* self.seq += 1: write self.seq.  The stored value is the one read plus 1.
SendStore(t) == t.tmp + 1
\* "seq": self.seq
SendBuild(t) == [t EXCEPT !.pc = "send_message", !.msg = [@ EXCEPT !.seq = seq]]

\* send_message with the frame written twice.
Written_Twice(msg, who) ==
    IF sock = "open" /\ ~client.closed
    THEN sent \o [j \in 1..2 |-> [msg EXCEPT !.by = who, !.conn = client.conn,
                                             !.during = IF who = 0 THEN h.req.seq ELSE 0,
                                             !.part = "whole"]]
    ELSE sent

\* send_message: sendall writes the whole frame; an error (the socket is
\* closed, the client is gone) is printed and swallowed.
Written(msg, who) ==
    IF sock = "open" /\ ~client.closed
    THEN Append(sent, [msg EXCEPT !.by = who, !.conn = client.conn,
                                  !.during = IF who = 0 THEN h.req.seq ELSE 0,
                                  !.part = "whole"])
    ELSE sent

\* What sendall's next send call leaves on the socket when the call takes
\* only some of the bytes: that part of the frame.
WrittenPart(msg, who, part) ==
    LET s == Written(msg, who)
    IN  IF s = sent THEN sent ELSE [s EXCEPT ![Len(s)].part = part]

\* The handler thread's four send steps.
send_load ==
    /\ h.pc = "send_load"
    /\ h' = SendLoad(h)
    /\ UNCHANGED <<harness, gdb_lock, running, seq, gdb_process, sock, buffer, watchers, procs, wire,
                   client, sent, hist>>

send_store ==
    /\ h.pc = "send_store"
    /\ seq' = SendStore(h)
    /\ h' = [h EXCEPT !.pc = "send_build"]
    /\ UNCHANGED <<harness, gdb_lock, running, gdb_process, sock, buffer, watchers, procs, wire,
                   client, sent, hist>>

send_build ==
    /\ h.pc = "send_build"
    /\ h' = SendBuild(h)
    /\ UNCHANGED <<harness, gdb_lock, running, seq, gdb_process, sock, buffer, watchers, procs, wire,
                   client, sent, hist>>

send_message ==
    /\ h.pc = "send_message"
    /\ sent' = Written(h.msg, 0)
    /\ h' = IF h.ret = "parse" THEN [Idle EXCEPT !.pc = "parse"]
            ELSE [h EXCEPT !.pc = h.ret, !.msg = NoMsg, !.tmp = 0, !.ret = "none"]
    /\ UNCHANGED <<harness, gdb_lock, running, seq, gdb_process, sock, buffer, watchers, procs, wire,
                   client, hist>>

\* send_message when the socket's send buffer has no room for the whole
\* frame (the client reads slowly): sendall's first send call takes the
\* first bytes of the frame, and a later send call, made when there is room
\* again, the rest.  No lock is held between the two.
send_partial ==
    \/ /\ h.pc = "send_message"
       /\ sent' = WrittenPart(h.msg, 0, "head")
       /\ h' = [h EXCEPT !.pc = "send_rest"]
       /\ UNCHANGED <<harness, gdb_lock, running, seq, gdb_process, sock, buffer, watchers, procs,
                      wire, client, hist>>
    \/ /\ h.pc = "send_rest"
       /\ sent' = WrittenPart(h.msg, 0, "tail")
       /\ h' = IF h.ret = "parse" THEN [Idle EXCEPT !.pc = "parse"]
               ELSE [h EXCEPT !.pc = h.ret, !.msg = NoMsg, !.tmp = 0, !.ret = "none"]
       /\ UNCHANGED <<harness, gdb_lock, running, seq, gdb_process, sock, buffer, watchers, procs,
                      wire, client, hist>>

---------------------------------------------------------------------------
(* _send_gdb_command and _read_gdb_until_prompt. *)

\* if self.gdb_process and self.gdb_process.stdin: write and flush.  Writing
\* to the pipe of a process that has exited raises BrokenPipeError.
CanWrite == gdb_process /= 0 => procs[gdb_process].st /= "dead"

\* Ids of the commands written so far are 1..Len(hist.cmds).
NextCmd == Len(hist.cmds) + 1

\* The pipes after the commands ks (a sequence of command names) are written.
RECURSIVE GdbWritten(_, _, _)
GdbWritten(ps, ks, id) ==
    IF gdb_process = 0 \/ ks = <<>> THEN ps
    ELSE GdbWritten([ps EXCEPT ![gdb_process].stdin =
                                   Append(@, [id |-> id, k |-> Head(ks)])],
                    Tail(ks), id + 1)

\* History: the commands written, with the request whose handler wrote them.
Logged(ks) ==
    IF gdb_process = 0 THEN hist
    ELSE [hist EXCEPT !.cmds = @ \o [j \in 1..Len(ks) |->
                                       [k |-> ks[j], req |-> h.req.seq, p |-> gdb_process]]]

\* The id of a command about to be written, 0 when there is no process and
\* nothing is written.
WrittenId == IF gdb_process = 0 THEN 0 ELSE NextCmd

\* The thread calls _read_gdb_until_prompt and continues at ret with the
\* text read in out.
CallDrain(t, ret) == [t EXCEPT !.pc = "drain", !.ret = ret, !.out = <<>>,
                               !.tried = FALSE]

\* One readline of the loop returned a line: it is appended to output, and a
\* completion marker ends the loop.
read_gdb_line ==
    /\ h.pc = "drain"
    /\ gdb_process /= 0 /\ CanReadLine(gdb_process)
    /\ LET l == Head(procs[gdb_process].out)
       IN  /\ procs' = [procs EXCEPT ![gdb_process].out = Tail(@)]
           /\ h' = [h EXCEPT !.out = Append(@, l), !.tried = TRUE,
                             !.pc = IF IsCompletion(l) THEN h.ret ELSE "drain"]
    /\ UNCHANGED <<harness, gdb_lock, running, seq, gdb_process, sock, buffer, watchers, wire, client,
                   sent, hist>>

\* The loop ends because timeout seconds have passed.  The clock is read at
\* the top of the loop only: with no process, or at end of file, the loop
\* sleeps until then; while readline blocks (the process is alive and silent)
\* it is not read; after a line that is no marker it may already be past.
read_gdb_timeout ==
    /\ h.pc = "drain"
    /\ \/ gdb_process = 0
       \/ gdb_process /= 0 /\ AtEof(gdb_process)
       \/ gdb_process /= 0 /\ h.tried /\ CanReadLine(gdb_process)
    /\ h' = [h EXCEPT !.pc = h.ret]
    /\ UNCHANGED <<harness, gdb_lock, running, seq, gdb_process, sock, buffer, watchers, procs, wire,
                   client, sent, hist>>

\* "*stopped" in output / "done" in output.lower()
OutputHasStopped(out) == \E j \in 1..Len(out) : IsStopped(out[j])
OutputHasDone(out) == \E j \in 1..Len(out) : HasDone(out[j])

---------------------------------------------------------------------------
(* handle_dap_message: the handlers, entered from pc "dispatch". *)

Dispatched(c) == h.pc = "dispatch" /\ h.req.command = c

\* A handler that writes the commands ks and then continues as hnext; a
\* failed write raises out of the handler.
WriteThen(ks, hnext) ==
    IF CanWrite
    THEN /\ procs' = GdbWritten(procs, ks, NextCmd)
         /\ hist' = Logged(ks)
         /\ h' = hnext
    ELSE /\ procs' = procs
         /\ hist' = Raised("BrokenPipeError")
         /\ h' = [h EXCEPT !.pc = "finally"]

Capabilities == "capabilities"

handle_initialize ==
    /\ Dispatched("initialize")
    /\ h' = CallSend(h, Response(h.req, Capabilities, <<>>, TRUE, <<>>), "initialize_event")
    /\ UNCHANGED <<harness, gdb_lock, running, seq, gdb_process, sock, buffer, watchers, procs, wire,
                   client, sent, hist>>

handle_initialize_event ==
    /\ h.pc = "initialize_event"
    /\ h' = CallSend(h, Event("initialized", "none", "", 0), "parse")
    /\ UNCHANGED <<harness, gdb_lock, running, seq, gdb_process, sock, buffer, watchers, procs, wire,
                   client, sent, hist>>

\* The except clause of handle_launch: a failure response with str(e).
LaunchFailed(exc) == CallSend(h, Response(h.req, "none", <<>>, FALSE, <<exc>>), "parse")

\* subprocess.Popen(["gdb", "--interpreter=mi", program], ...), which raises
\* when gdb or the working directory is missing, then the first drain.
handle_launch ==
    /\ Dispatched("launch")
    /\ \/ /\ Len(procs) < MaxProcs
          /\ procs' = Append(procs, [NewProc EXCEPT !.req = h.req.seq])
          /\ gdb_process' = Len(procs) + 1
          /\ h' = CallDrain(h, "launch_entry")
       \/ /\ h' = LaunchFailed("FileNotFoundError")
          /\ UNCHANGED <<harness, procs, gdb_process>>
    /\ UNCHANGED <<harness, gdb_lock, running, seq, sock, buffer, watchers, wire, client, sent, hist>>

\* stop_on_entry without the default.
stop_on_entry_NoDefault(req) == req.stopOnEntry = "true"

\* stop_on_entry = args.get("stopOnEntry", True)
stop_on_entry(req) == req.stopOnEntry /= "false"

\* if stop_on_entry: -break-insert main, drain
handle_launch_entry ==
    /\ h.pc = "launch_entry"
    /\ IF stop_on_entry(h.req)
       THEN IF CanWrite
            THEN /\ procs' = GdbWritten(procs, <<"-break-insert main">>, NextCmd)
                 /\ hist' = Logged(<<"-break-insert main">>)
                 /\ h' = CallDrain(h, "launch_run")
            ELSE /\ h' = LaunchFailed("BrokenPipeError")
                 /\ UNCHANGED <<harness, procs, hist>>
       ELSE /\ h' = [h EXCEPT !.pc = "launch_run"]
            /\ UNCHANGED <<harness, procs, hist>>
    /\ UNCHANGED <<harness, gdb_lock, running, seq, gdb_process, sock, buffer, watchers, wire, client,
                   sent>>

\* -exec-run, output = drain
handle_launch_run ==
    /\ h.pc = "launch_run"
    /\ IF CanWrite
       THEN /\ procs' = GdbWritten(procs, <<"-exec-run">>, NextCmd)
            /\ hist' = Logged(<<"-exec-run">>)
            /\ h' = CallDrain(h, "launch_respond")
       ELSE /\ h' = LaunchFailed("BrokenPipeError")
            /\ UNCHANGED <<harness, procs, hist>>
    /\ UNCHANGED <<harness, gdb_lock, running, seq, gdb_process, sock, buffer, watchers, wire, client,
                   sent>>

handle_launch_respond ==
    /\ h.pc = "launch_respond"
    /\ h' = CallSend(h, Response(h.req, "none", <<>>, TRUE, <<>>), "launch_process")
    /\ UNCHANGED <<harness, gdb_lock, running, seq, gdb_process, sock, buffer, watchers, procs, wire,
                   client, sent, hist>>

handle_launch_process ==
    /\ h.pc = "launch_process"
    /\ h' = CallSend(h, Event("process", "process", "", 0), "launch_stopped")
    /\ UNCHANGED <<harness, gdb_lock, running, seq, gdb_process, sock, buffer, watchers, procs, wire,
                   client, sent, hist>>

\* EntryReason without the test of stop_on_entry.
EntryReason_Always(req) == "entry"

\* if "*stopped" in output: send_event("stopped", reason entry or breakpoint)
EntryReason(req) == IF stop_on_entry(req) THEN "entry" ELSE "breakpoint"

\* History: the command whose *stopped line is the first one in out.
StoppedCause(out) == out[CHOOSE j \in 1..Len(out) :
                            IsStopped(out[j]) /\ \A i \in 1..(j - 1) : ~IsStopped(out[i])].c

handle_launch_stopped ==
    /\ h.pc = "launch_stopped"
    /\ h' = IF OutputHasStopped(h.out)
            THEN CallSend(h, Event("stopped", "stopped", EntryReason(h.req),
                                   StoppedCause(h.out)), "parse")
            ELSE [Idle EXCEPT !.pc = "parse"]
    /\ UNCHANGED <<harness, gdb_lock, running, seq, gdb_process, sock, buffer, watchers, procs, wire,
                   client, sent, hist>>

\* BreakpointEntry with the enumerate index used as the identity.
BreakpointEntry_IndexAsId(i, line, output, cmd) ==
    [id |-> i, verified |-> OutputHasDone(output), line |-> line, cmd |-> cmd]

\* One entry of result_breakpoints, for the entry at index i (from 0) of the
\* request.  cmd (history) is the id of the install command, 0 if none was written.
BreakpointEntry(i, line, output, cmd) ==
    [id |-> i + 1, verified |-> OutputHasDone(output), line |-> line, cmd |-> cmd]

\* handle_setBreakpoints without the -break-delete.
handle_setBreakpoints_NoClear ==
    /\ Dispatched("setBreakpoints")
    /\ WriteThen(<<>>, CallDrain(h, "setBreakpoints_loop"))
    /\ UNCHANGED <<harness, gdb_lock, running, seq, gdb_process, sock, buffer, watchers, wire, client,
                   sent>>

\* -break-delete, drain
handle_setBreakpoints ==
    /\ Dispatched("setBreakpoints")
    /\ WriteThen(<<"-break-delete">>, CallDrain(h, "setBreakpoints_loop"))
    /\ UNCHANGED <<harness, gdb_lock, running, seq, gdb_process, sock, buffer, watchers, wire, client,
                   sent>>

\* for i, bp in enumerate(breakpoints): -break-insert path:line, drain; after
\* the loop, the response with result_breakpoints.
handle_setBreakpoints_loop ==
    /\ h.pc = "setBreakpoints_loop"
    /\ IF h.i < Len(h.req.lines)
       THEN WriteThen(<<"-break-insert">>,
                      [CallDrain(h, "setBreakpoints_append") EXCEPT !.cmd = WrittenId])
       ELSE /\ h' = CallSend(h, Response(h.req, "breakpoints", h.res, TRUE, <<>>), "parse")
            /\ UNCHANGED <<harness, procs, hist>>
    /\ UNCHANGED <<harness, gdb_lock, running, seq, gdb_process, sock, buffer, watchers, wire, client,
                   sent>>

\* verified = "done" in output.lower(); result_breakpoints.append(...)
handle_setBreakpoints_append ==
    /\ h.pc = "setBreakpoints_append"
    /\ h' = [h EXCEPT !.pc = "setBreakpoints_loop",
                      !.res = Append(@, BreakpointEntry(h.i, h.req.lines[h.i + 1],
                                                        h.out, h.cmd)),
                      !.i = @ + 1, !.out = <<>>, !.cmd = 0, !.tried = FALSE,
                      !.ret = "none"]
    /\ UNCHANGED <<harness, gdb_lock, running, seq, gdb_process, sock, buffer, watchers, procs, wire,
                   client, sent, hist>>

\* handle_configurationDone resuming the program, as adapters that hold the
\* debuggee until configuration is done do.
handle_configurationDone_Resumes ==
    /\ Dispatched("configurationDone")
    /\ WriteThen(<<"-exec-continue">>,
                 CallSend(h, Response(h.req, "none", <<>>, TRUE, <<>>), "parse"))
    /\ UNCHANGED <<harness, gdb_lock, running, seq, gdb_process, sock, buffer, watchers, wire, client,
                   sent>>

handle_configurationDone ==
    /\ Dispatched("configurationDone")
    /\ h' = CallSend(h, Response(h.req, "none", <<>>, TRUE, <<>>), "parse")
    /\ UNCHANGED <<harness, gdb_lock, running, seq, gdb_process, sock, buffer, watchers, procs, wire,
                   client, sent, hist>>

handle_threads ==
    /\ Dispatched("threads")
    /\ h' = CallSend(h, Response(h.req, "threads", <<>>, TRUE, <<>>), "parse")
    /\ UNCHANGED <<harness, gdb_lock, running, seq, gdb_process, sock, buffer, watchers, procs, wire,
                   client, sent, hist>>

handle_scopes ==
    /\ Dispatched("scopes")
    /\ h' = CallSend(h, Response(h.req, "scopes", <<>>, TRUE, <<>>), "parse")
    /\ UNCHANGED <<harness, gdb_lock, running, seq, gdb_process, sock, buffer, watchers, procs, wire,
                   client, sent, hist>>

\* A handler that writes one command, drains, and answers from the output.
Inspect(c, k, ret) ==
    /\ Dispatched(c)
    /\ WriteThen(<<k>>, CallDrain(h, ret))
    /\ UNCHANGED <<harness, gdb_lock, running, seq, gdb_process, sock, buffer, watchers, wire, client,
                   sent>>

InspectRespond(pc, body) ==
    /\ h.pc = pc
    /\ h' = CallSend(h, Response(h.req, body, <<>>, TRUE, <<>>), "parse")
    /\ UNCHANGED <<harness, gdb_lock, running, seq, gdb_process, sock, buffer, watchers, procs, wire,
                   client, sent, hist>>

handle_stackTrace == Inspect("stackTrace", "-stack-list-frames", "stackTrace_respond")
handle_stackTrace_respond == InspectRespond("stackTrace_respond", "stackFrames")

\* ref == 1: -stack-list-locals, otherwise -stack-list-arguments
handle_variables ==
    \E k \in {"-stack-list-locals", "-stack-list-arguments"} :
        Inspect("variables", k, "variables_respond")
handle_variables_respond == InspectRespond("variables_respond", "variables")

handle_evaluate == Inspect("evaluate", "-data-evaluate-expression", "evaluate_respond")
handle_evaluate_respond == InspectRespond("evaluate_respond", "result")

\* A watcher thread as threading.Thread(target=self._wait_for_stop).start()
\* creates it.  cmd (history) is the id of the resume command, 0 if none was written.
NewWatcher(cmd) == [pc |-> "check", p |-> 0, msg |-> NoMsg, tmp |-> 0, ret |-> "none",
                    cmd |-> cmd]

\* The steps of a resume handler after its command is written: the watcher
\* thread is started, then the response is sent.
ResumeSteps(body) ==
    /\ watchers' = Append(watchers, NewWatcher(WrittenId))
    /\ h' = CallSend(h, Response(h.req, body, <<>>, TRUE, <<>>), "parse")

\* handle_continue / handle_next / handle_stepIn / handle_stepOut
Resume(c, k, body) ==
    /\ Dispatched(c)
    /\ IF CanWrite
       THEN /\ procs' = GdbWritten(procs, <<k>>, NextCmd)
            /\ hist' = Logged(<<k>>)
            /\ ResumeSteps(body)
       ELSE /\ hist' = Raised("BrokenPipeError")
            /\ h' = [h EXCEPT !.pc = "finally"]
            /\ UNCHANGED <<harness, procs, watchers>>
    /\ UNCHANGED <<harness, gdb_lock, running, seq, gdb_process, sock, buffer, wire, client, sent>>

handle_continue == Resume("continue", "-exec-continue", "allThreadsContinued")
handle_next == Resume("next", "-exec-next", "none")
handle_stepIn == Resume("stepIn", "-exec-step", "none")
handle_stepOut == Resume("stepOut", "-exec-finish", "none")

\* if self.gdb_process: -gdb-exit, terminate(); self.running = False; respond
handle_disconnect ==
    /\ Dispatched("disconnect")
    /\ IF CanWrite
       THEN /\ procs' = IF gdb_process = 0 THEN procs
                        ELSE Terminated(GdbWritten(procs, <<"-gdb-exit">>, NextCmd),
                                        gdb_process)
            /\ hist' = Logged(<<"-gdb-exit">>)
            /\ running' = FALSE
            /\ h' = CallSend(h, Response(h.req, "none", <<>>, TRUE, <<>>), "parse")
       ELSE /\ hist' = Raised("BrokenPipeError")
            /\ h' = [h EXCEPT !.pc = "finally"]
            /\ UNCHANGED <<harness, procs, running>>
    /\ UNCHANGED <<harness, gdb_lock, seq, gdb_process, sock, buffer, watchers, wire, client, sent>>

\* with self.gdb_lock: the lock is released when the block is left, by its
\* last statement or by an exception (failed).
Release_NotOnError(failed) == IF failed THEN gdb_lock ELSE "unlocked"

Release(failed) == "unlocked"

\* handle_terminate, with the two calls of _send_gdb_command in steps: the
\* lock is taken, the command is written and flushed and the lock released.
\* (The other handlers' calls are taken as one step each: the handler thread
\* is the only caller of _send_gdb_command.)
\* if self.gdb_process: with self.gdb_lock (for -exec-abort)
handle_terminate ==
    /\ Dispatched("terminate")
    /\ IF gdb_process = 0
       THEN /\ h' = CallSend(h, Response(h.req, "none", <<>>, TRUE, <<>>), "parse")
            /\ gdb_lock' = gdb_lock
       ELSE /\ gdb_lock = "unlocked"
            /\ gdb_lock' = "handler"
            /\ h' = [h EXCEPT !.pc = "terminate_abort"]
    /\ UNCHANGED <<harness, running, seq, gdb_process, sock, buffer, watchers, procs, wire,
                   client, sent, hist>>

\* stdin.write("-exec-abort\n"); stdin.flush(); the lock is released
handle_terminate_abort ==
    /\ h.pc = "terminate_abort"
    /\ WriteThen(<<"-exec-abort">>, [h EXCEPT !.pc = "terminate_lock"])
    /\ gdb_lock' = Release(~CanWrite)
    /\ UNCHANGED <<harness, running, seq, gdb_process, sock, buffer, watchers, wire, client,
                   sent>>

\* with self.gdb_lock (for -gdb-exit)
handle_terminate_lock ==
    /\ h.pc = "terminate_lock"
    /\ gdb_lock = "unlocked"
    /\ gdb_lock' = "handler"
    /\ h' = [h EXCEPT !.pc = "terminate_exit"]
    /\ UNCHANGED <<harness, running, seq, gdb_process, sock, buffer, watchers, procs, wire,
                   client, sent, hist>>

\* stdin.write("-gdb-exit\n"); stdin.flush(); the lock is released;
\* self.gdb_process.terminate(); respond
handle_terminate_exit ==
    /\ h.pc = "terminate_exit"
    /\ IF CanWrite
       THEN /\ procs' = Terminated(GdbWritten(procs, <<"-gdb-exit">>, NextCmd),
                                   gdb_process)
            /\ hist' = Logged(<<"-gdb-exit">>)
            /\ h' = CallSend(h, Response(h.req, "none", <<>>, TRUE, <<>>), "parse")
       ELSE /\ hist' = Raised("BrokenPipeError")
            /\ h' = [h EXCEPT !.pc = "finally"]
            /\ UNCHANGED procs
    /\ gdb_lock' = Release(~CanWrite)
    /\ UNCHANGED <<harness, running, seq, gdb_process, sock, buffer, watchers, wire, client,
                   sent>>

Terminate ==
    \/ handle_terminate \/ handle_terminate_abort
    \/ handle_terminate_lock \/ handle_terminate_exit

\* f"Unknown command: {command}"
UnknownMessage(c) == <<"Unknown command: ", c>>

\* getattr(self, f"handle_{command}", None) is None: the else branch.
handle_unknown ==
    /\ h.pc = "dispatch" /\ h.req.command \notin HandleAttrs
    /\ h' = CallSend(h, Response(h.req, "none", <<>>, FALSE, UnknownMessage(h.req.command)),
                     "parse")
    /\ UNCHANGED <<harness, gdb_lock, running, seq, gdb_process, sock, buffer, watchers, procs, wire,
                   client, sent, hist>>

\* getattr finds handle_client or handle_dap_message: handler(message, args)
\* raises TypeError (the method takes no such arguments).
handle_attribute ==
    /\ h.pc = "dispatch" /\ h.req.command \in HandleAttrs \ Handlers
    /\ hist' = Raised("TypeError")
    /\ h' = [h EXCEPT !.pc = "finally"]
    /\ UNCHANGED <<harness, gdb_lock, running, seq, gdb_process, sock, buffer, watchers, procs, wire,
                   client, sent>>

---------------------------------------------------------------------------
(* _wait_for_stop: watcher thread w. *)

\* while self.running and self.gdb_process: the loop goes on or ends.
wait_check(w) ==
    /\ watchers[w].pc = "check"
    /\ watchers' = [watchers EXCEPT
                      ![w].pc = IF running /\ gdb_process /= 0 THEN "call" ELSE "done",
                      ![w].p = 0]
    /\ UNCHANGED <<harness, gdb_lock, running, seq, gdb_process, sock, buffer, h, procs, wire, client,
                   sent, hist>>

\* self.gdb_process.stdout.readline: the attribute is read again, and the
\* call is made on the stdout of the process it names now.
wait_call(w) ==
    /\ watchers[w].pc = "call"
    /\ watchers' = [watchers EXCEPT ![w].pc = "readline", ![w].p = gdb_process]
    /\ UNCHANGED <<harness, gdb_lock, running, seq, gdb_process, sock, buffer, h, procs, wire, client,
                   sent, hist>>

\* StopEvent with the exited test left out.
StopEvent_NoExited(l) ==
    Event("stopped", "stopped",
          IF l.k = "stopped_step" THEN "step" ELSE "breakpoint", l.c)

\* The event _wait_for_stop sends for a line containing *stopped.
StopEvent(l) ==
    IF l.k = "stopped_exit" THEN Event("terminated", "none", "", l.c)
    ELSE Event("stopped", "stopped",
               IF l.k = "stopped_step" THEN "step" ELSE "breakpoint", l.c)

\* line = readline(): a *stopped line makes the thread send its event and
\* end; any other line, and '' at end of file, goes round the loop.
wait_readline(w) ==
    /\ watchers[w].pc = "readline"
    /\ LET p == watchers[w].p
       IN  \/ /\ CanReadLine(p)
              /\ procs' = [procs EXCEPT ![p].out = Tail(@)]
              /\ LET l == Head(procs[p].out)
                 IN  watchers' = [watchers EXCEPT ![w] =
                                    IF IsStopped(l) THEN CallSend(@, StopEvent(l), "done")
                                    ELSE [@ EXCEPT !.pc = "check"]]
           \/ /\ AtEof(p)
              /\ watchers' = [watchers EXCEPT ![w].pc = "check"]
              /\ procs' = procs
    /\ UNCHANGED <<harness, gdb_lock, running, seq, gdb_process, sock, buffer, h, wire, client, sent,
                   hist>>

\* The watcher thread's four send steps (send_event).
wait_send_load(w) ==
    /\ watchers[w].pc = "send_load"
    /\ watchers' = [watchers EXCEPT ![w] = SendLoad(@)]
    /\ UNCHANGED <<harness, gdb_lock, running, seq, gdb_process, sock, buffer, h, procs, wire, client,
                   sent, hist>>

wait_send_store(w) ==
    /\ watchers[w].pc = "send_store"
    /\ seq' = SendStore(watchers[w])
    /\ watchers' = [watchers EXCEPT ![w].pc = "send_build"]
    /\ UNCHANGED <<harness, gdb_lock, running, gdb_process, sock, buffer, h, procs, wire, client, sent,
                   hist>>

wait_send_build(w) ==
    /\ watchers[w].pc = "send_build"
    /\ watchers' = [watchers EXCEPT ![w] = SendBuild(@)]
    /\ UNCHANGED <<harness, gdb_lock, running, seq, gdb_process, sock, buffer, h, procs, wire, client,
                   sent, hist>>

\* wait_send_message with neither break nor return: the thread goes round
\* the loop again after its event.
wait_send_message_NoBreak(w) ==
    /\ watchers[w].pc = "send_message"
    /\ sent' = Written(watchers[w].msg, w)
    /\ watchers' = [watchers EXCEPT ![w] = [@ EXCEPT !.pc = "check", !.msg = NoMsg,
                                                     !.tmp = 0, !.ret = "none"]]
    /\ UNCHANGED <<harness, gdb_lock, running, seq, gdb_process, sock, buffer, h, procs, wire, client,
                   hist>>

\* sendall, then the break (after stopped) or the return (after terminated)
\* that ends _wait_for_stop.
wait_send_message(w) ==
    /\ watchers[w].pc = "send_message"
    /\ sent' = Written(watchers[w].msg, w)
    /\ watchers' = [watchers EXCEPT ![w] = [@ EXCEPT !.pc = "done", !.msg = NoMsg,
                                                     !.tmp = 0, !.ret = "none"]]
    /\ UNCHANGED <<harness, gdb_lock, running, seq, gdb_process, sock, buffer, h, procs, wire, client,
                   hist>>

\* The same two send calls in a watcher thread.
wait_send_partial(w) ==
    \/ /\ watchers[w].pc = "send_message"
       /\ sent' = WrittenPart(watchers[w].msg, w, "head")
       /\ watchers' = [watchers EXCEPT ![w].pc = "send_rest"]
       /\ UNCHANGED <<harness, gdb_lock, running, seq, gdb_process, sock, buffer, h, procs, wire,
                      client, hist>>
    \/ /\ watchers[w].pc = "send_rest"
       /\ sent' = WrittenPart(watchers[w].msg, w, "tail")
       /\ watchers' = [watchers EXCEPT ![w] = [@ EXCEPT !.pc = "done", !.msg = NoMsg,
                                                        !.tmp = 0, !.ret = "none"]]
       /\ UNCHANGED <<harness, gdb_lock, running, seq, gdb_process, sock, buffer, h, procs, wire,
                      client, hist>>

---------------------------------------------------------------------------
(* Specifications.  Each takes the whole bridge and a client that draws its *)
(* requests from one set of command names.                                  *)

GdbStartupStep == \E p \in 1..Len(procs) : GdbStartup(p)
GdbRespondStep == \E p \in 1..Len(procs) : GdbRespond(p)
GdbStopStep == \E p \in 1..Len(procs) : GdbStop(p)
GdbExitStep == \E p \in 1..Len(procs) : GdbExit(p)
GdbCrashStep == \E p \in 1..Len(procs) : GdbCrash(p)

Gdb == GdbStartupStep \/ GdbRespondStep \/ GdbStopStep \/ GdbExitStep \/ GdbCrashStep

WaitCheck == \E w \in 1..Len(watchers) : wait_check(w)
WaitCall == \E w \in 1..Len(watchers) : wait_call(w)
WaitReadline == \E w \in 1..Len(watchers) : wait_readline(w)
WaitSendLoad == \E w \in 1..Len(watchers) : wait_send_load(w)
WaitSendStore == \E w \in 1..Len(watchers) : wait_send_store(w)
WaitSendBuild == \E w \in 1..Len(watchers) : wait_send_build(w)
WaitSendMessage == \E w \in 1..Len(watchers) : wait_send_message(w)

Watcher ==
    \/ WaitCheck \/ WaitCall \/ WaitReadline
    \/ WaitSendLoad \/ WaitSendStore \/ WaitSendBuild \/ WaitSendMessage

Transport == start \/ recv_all \/ recv_end \/ parse \/ handle_client_finally

Send == send_load \/ send_store \/ send_build \/ send_message

Drain == read_gdb_line \/ read_gdb_timeout

Launch ==
    \/ handle_launch \/ handle_launch_entry \/ handle_launch_run
    \/ handle_launch_respond \/ handle_launch_process \/ handle_launch_stopped

SetBreakpoints ==
    handle_setBreakpoints \/ handle_setBreakpoints_loop \/ handle_setBreakpoints_append

\* A debugging session: launch, the four resume commands, disconnect.
SessionCommands == {"launch", "continue", "next", "stepIn", "stepOut", "disconnect"}

Next ==
    \/ ClientSend(Client(SessionCommands, MaxReq, 0, MaxLaunch, {"true", "false"}))
    \/ Transport \/ Send \/ Drain
    \/ Launch
    \/ handle_continue \/ handle_next \/ handle_stepIn \/ handle_stepOut
    \/ handle_disconnect
    \/ Watcher \/ Gdb

Spec == Init /\ [][Next]_vars

\* Setting breakpoints, before and after launch and after terminate.  The
\* client keeps the connection open and self.running stays true: the only
\* way out of the transport loop is an exception.
BreakpointCommands == {"launch", "setBreakpoints", "terminate"}

NextBreakpoints ==
    \/ ClientSend(Client(BreakpointCommands, MaxReq, 0, MaxLaunch, {"true", "false"}))
    \/ start \/ recv_all \/ parse \/ handle_client_finally
    \/ Send \/ Drain
    \/ Launch \/ SetBreakpoints
    \/ Terminate
    \/ Gdb

SpecBreakpoints == Init /\ [][NextBreakpoints]_vars

\* Dispatch: requests with and without a handler, in every state of the
\* debugger process.
DispatchCommands == {"launch", "evaluate", "terminate", "disconnect", "client", Unknown}

NextDispatch ==
    \/ ClientSend(Client(DispatchCommands, MaxReq, 0, MaxLaunch,
                        {"true", "false", "absent"}))
    \/ Transport \/ Send \/ Drain
    \/ Launch
    \/ handle_evaluate \/ handle_evaluate_respond
    \/ Terminate \/ handle_disconnect
    \/ handle_unknown \/ handle_attribute
    \/ Gdb

SpecDispatch == Init /\ [][NextDispatch]_vars

\* The start of a session: initialize at any point of it, launch, continue.
LifecycleCommands == {"initialize", "launch", "continue"}

NextLifecycle ==
    \/ ClientSend(Client(LifecycleCommands, MaxReq, 0, MaxLaunch, {"true", "false"}))
    \/ start \/ recv_all \/ parse \/ handle_client_finally
    \/ Send \/ Drain
    \/ handle_initialize \/ handle_initialize_event
    \/ Launch
    \/ handle_continue
    \/ Watcher
    \/ GdbStartupStep \/ GdbRespondStep \/ GdbStopStep \/ GdbCrashStep

SpecLifecycle == Init /\ [][NextLifecycle]_vars

\* The frame decoder: requests with ASCII and non-ASCII bodies, received in
\* chunks that end anywhere; the client may close its end.
CodecCommands == {"threads", "evaluate"}

NextCodec ==
    \/ ClientSend(Client(CodecCommands, MaxReqCodec, MaxWide, MaxLaunch, {"true", "false"}))
    \/ ClientClose
    \/ start \/ recv_some \/ recv_end \/ parse \/ handle_client_finally
    \/ Send
    \/ read_gdb_timeout
    \/ handle_threads
    \/ handle_evaluate \/ handle_evaluate_respond

SpecCodec == Init /\ [][NextCodec]_vars

\* Data inspection while the program runs: a launch, a resume and evaluate
\* requests, so that the handler's drain and a stop watcher coexist.
NextInspect ==
    \/ ClientSend(Client({"launch", "continue", "evaluate"}, MaxReq, 0, MaxLaunch, {"true", "false"}))
    \/ start \/ recv_all \/ parse \/ handle_client_finally
    \/ Send \/ Drain
    \/ Launch
    \/ handle_continue
    \/ handle_evaluate \/ handle_evaluate_respond
    \/ Watcher
    \/ GdbStartupStep \/ GdbRespondStep \/ GdbStopStep \/ GdbCrashStep

SpecInspect == Init /\ [][NextInspect]_vars

\* Clients that come one after another: a client closes its connection, or
\* its input makes the handling loop raise, and the accept loop takes the
\* next one; or it disconnects.
NextConnections ==
    \/ ClientSend(Client({"launch", "threads", "disconnect"}, MaxReq, 0, MaxLaunch,
                         {"false"}))
    \/ ClientSendMalformed
    \/ ClientClose
    \/ accept(MaxConnAgain) \/ recv_all \/ recv_end \/ parse \/ handle_client_finally
    \/ Send \/ Drain
    \/ Launch
    \/ handle_threads
    \/ handle_disconnect
    \/ GdbStartupStep \/ GdbRespondStep \/ GdbExitStep \/ GdbCrashStep

SpecConnections == Init /\ [][NextConnections]_vars

\* Sessions one after another with stop watchers: a client launches and
\* resumes the program and closes its connection, and the next client is
\* accepted and launches while the watcher thread of the first is still
\* there.  The program runs on without stopping.
NextReconnect ==
    \/ ClientSend(Client({"launch", "continue"}, MaxReq, 0, MaxLaunchLive, {"false"}))
    \/ ClientClose
    \/ accept(MaxConnAgain) \/ recv_all \/ recv_end \/ parse \/ handle_client_finally
    \/ Send \/ Drain
    \/ Launch
    \/ handle_continue
    \/ WaitCheck \/ WaitCall \/ WaitReadline
    \/ GdbStartupStep \/ GdbRespondStep \/ GdbExitStep

SpecReconnect == Init /\ [][NextReconnect]_vars

\* Two resume requests after a launch, so that two stop watchers are started.
\* The program runs on without stopping.
NextWatchers ==
    \/ ClientSend([Client({"launch", "continue"}, MaxReq, 0, MaxLaunch, {"false"})
                      EXCEPT !.maxResume = MaxWatchBoth])
    \/ start \/ recv_all \/ parse
    \/ Send \/ Drain
    \/ Launch
    \/ handle_continue
    \/ WaitCheck \/ WaitCall \/ WaitReadline
    \/ GdbStartupStep \/ GdbRespondStep

SpecWatchers == Init /\ [][NextWatchers]_vars

\* A client that reads slowly, so that sendall may need two send calls for
\* a frame, while the handler thread and a stop watcher both send.
NextFrames ==
    \/ ClientSend(Client({"launch", "continue"}, MaxReq, 0, MaxLaunch, {"false"}))
    \/ start \/ recv_all \/ parse
    \/ Send \/ send_partial \/ Drain
    \/ Launch
    \/ handle_continue
    \/ Watcher
    \/ \E w \in 1..Len(watchers) : wait_send_partial(w)
    \/ GdbStartupStep \/ GdbRespondStep \/ GdbStopStep

SpecFrames == Init /\ [][NextFrames]_vars

\* Malformed input among well-formed requests, received in chunks that end
\* anywhere.  The client keeps the connection open.
NextMalformed ==
    \/ ClientSend(Client({"threads"}, MaxReqCodec, 0, MaxLaunch, {"true", "false"}))
    \/ ClientSendMalformed
    \/ start \/ recv_some \/ parse \/ handle_client_finally
    \/ Send
    \/ handle_threads

SpecMalformed == Init /\ [][NextMalformed]_vars

\* The requests that are only acknowledged, before and after a launch and
\* while a stop watcher runs.
NextAcknowledge ==
    \/ ClientSend(Client({"launch", "continue", "initialize", "configurationDone",
                          "threads", "scopes"}, MaxReq, 0, MaxLaunch, {"false"}))
    \/ start \/ recv_all \/ parse \/ handle_client_finally
    \/ Send \/ Drain
    \/ handle_initialize \/ handle_initialize_event
    \/ handle_configurationDone \/ handle_threads \/ handle_scopes
    \/ Launch
    \/ handle_continue
    \/ Watcher
    \/ GdbStartupStep \/ GdbRespondStep \/ GdbStopStep \/ GdbCrashStep

SpecAcknowledge == Init /\ [][NextAcknowledge]_vars

\* Ending a session.  The handler thread and every watcher thread keep being
\* scheduled; gdb prints its banner, answers the commands it is sent, and
\* exits when it gets SIGTERM.  Nothing makes the client write.  The client
\* launches without stopOnEntry, the debuggee runs on without stopping, and
\* gdb does not crash.
LiveCommands == {"launch", "continue", "disconnect", "terminate"}

HandlerThread ==
    \/ Transport \/ Send \/ Drain
    \/ Launch
    \/ handle_continue
    \/ handle_disconnect \/ Terminate

WatcherThread(w) == wait_check(w) \/ wait_call(w) \/ wait_readline(w)

NextLive ==
    \/ ClientSend(Client(LiveCommands, MaxReqLive, 0, MaxLaunchLive, {"false"}))
    \/ HandlerThread
    \/ WaitCheck \/ WaitCall \/ WaitReadline
    \/ GdbStartupStep \/ GdbRespondStep \/ GdbExitStep

Fairness ==
    /\ WF_vars(HandlerThread)
    /\ \A w \in 1..MaxWatch : WF_vars(w <= Len(watchers) /\ WatcherThread(w))
    /\ \A p \in 1..MaxProcs :
          /\ WF_vars(p <= Len(procs) /\ GdbStartup(p))
          /\ WF_vars(p <= Len(procs) /\ GdbRespond(p))
          /\ WF_vars(p <= Len(procs) /\ GdbExit(p))

SpecLive == Init /\ [][NextLive]_vars /\ Fairness

\* The same session with a debugger that may stay silent: the server's
\* threads keep being scheduled, nothing is assumed of gdb.
SpecSilent ==
    /\ Init /\ [][NextLive]_vars
    /\ WF_vars(HandlerThread)
    /\ \A w \in 1..MaxWatch : WF_vars(w <= Len(watchers) /\ WatcherThread(w))

---------------------------------------------------------------------------
(* Claims. *)

\* Responses and events written on connection c, in write order.
RECURSIVE OnConn(_, _)
OnConn(ms, c) ==
    IF ms = <<>> THEN <<>>
    ELSE IF Head(ms).conn = c THEN <<Head(ms)>> \o OnConn(Tail(ms), c)
    ELSE OnConn(Tail(ms), c)

\* C1: on one connection the seq fields of the frames written to the socket,
\* in write order, are strictly increasing (so no seq value is used twice),
\* in every interleaving of the handler thread with the watcher threads.
C1_SeqStrictlyIncreasing ==
    \A c \in 1..client.conn :
        LET ms == OnConn(sent, c)
        IN  \A i \in 1..Len(ms) : \A j \in 1..Len(ms) :
                i < j => ms[i].seq < ms[j].seq

\* The responses written for request r.
ResponsesTo(r) ==
    {i \in 1..Len(sent) : /\ sent[i].type = "response"
                          /\ sent[i].request_seq = r.seq
                          /\ sent[i].command = r.command}

\* The handler thread has left the handler of the k-th dispatched request.
Left(k) ==
    \/ k < Len(hist.dispatched)
    \/ h.pc \in {"parse", "recv", "finally", "accept", "exit"}

\* C2: every request decoded on a connection is answered by exactly one
\* response carrying its seq and command: never two, and not zero once its
\* handler has been left.
C2_ExactlyOneResponse ==
    \A k \in 1..Len(hist.dispatched) :
        LET n == Cardinality(ResponsesTo(hist.dispatched[k]))
        IN  n <= 1 /\ (Left(k) => n = 1)

\* The gdb commands the resume handlers write.
ResumeGdbCommands == {"-exec-continue", "-exec-next", "-exec-step", "-exec-finish"}

\* Frame i is a stopped or terminated event made by a line gdb printed for
\* a resume command.
CausedByResume(i) ==
    /\ sent[i].type = "event" /\ sent[i].event \in {"stopped", "terminated"}
    /\ sent[i].cause /= 0
    /\ hist.cmds[sent[i].cause].k \in ResumeGdbCommands

\* C3: the response to a continue, next, stepIn or stepOut request is written
\* to the client before any stopped or terminated event caused by that command.
C3_ResponseBeforeEvent ==
    \A i \in 1..Len(sent) :
        CausedByResume(i) =>
            \E j \in 1..(i - 1) :
                /\ sent[j].type = "response"
                /\ sent[j].request_seq = hist.cmds[sent[i].cause].req

\* The dispatched request numbered n.
RequestOf(n) == CHOOSE r \in {hist.dispatched[k] : k \in 1..Len(hist.dispatched)} : r.seq = n

SetBreakpointsResponse(i) ==
    sent[i].type = "response" /\ sent[i].command = "setBreakpoints"

\* C4: the response to a setBreakpoints request with N entries carries exactly
\* N breakpoint objects in request order, the i-th with id i and the i-th
\* requested line, whatever gdb printed and whether it printed anything.
C4_BreakpointsEchoed ==
    \A i \in 1..Len(sent) :
        SetBreakpointsResponse(i) =>
            LET lines == RequestOf(sent[i].request_seq).lines
                bps == sent[i].bps
            IN  /\ sent[i].success /\ sent[i].body = "breakpoints"
                /\ Len(bps) = Len(lines)
                /\ \A k \in 1..Len(bps) : bps[k].id = k /\ bps[k].line = lines[k]

\* A response with two breakpoints, one install acknowledged and one not.
C4_Witness ==
    \E i \in 1..Len(sent) :
        /\ SetBreakpointsResponse(i)
        /\ Len(sent[i].bps) = 2
        /\ sent[i].bps[1].verified /= sent[i].bps[2].verified

\* gdb printed a line containing done in answer to command c.
DoneFor(c) ==
    c /= 0 /\ \E l \in procs[hist.cmds[c].p].em : l.c = c /\ HasDone(l)

\* C5: in a setBreakpoints response the i-th breakpoint is verified exactly
\* when the output gdb produced for the i-th install command contained done.
C5_VerifiedIffInstallDone ==
    \A i \in 1..Len(sent) :
        SetBreakpointsResponse(i) =>
            \A k \in 1..Len(sent[i].bps) :
                sent[i].bps[k].verified <=> DoneFor(sent[i].bps[k].cmd)

\* C6: a request whose command names no request handler is answered with a
\* failure response whose message names the command; its handling writes no
\* command to gdb, leaves the gdb process and self.running as they are, and
\* returns to the transport loop, which goes on to the next request.
C6_UnknownCommandFails ==
    [][(h.pc = "dispatch" /\ h.req.command \notin Handlers /\ h' /= h) =>
          /\ h' = CallSend(h, Response(h.req, "none", <<>>, FALSE,
                                       UnknownMessage(h.req.command)), "parse")
          /\ UNCHANGED <<harness, running, gdb_process, procs, hist>>]_vars

\* C7: the frames a client writes, received in chunks that end anywhere, are
\* each decoded and dispatched exactly once, in the order written, as the
\* message that was encoded: no chunk or frame fails to decode, what has been
\* dispatched is the messages written so far in order, and none is left
\* undispatched once every byte has been received and parsed.
C7_FramesRoundTrip ==
    /\ \A e \in hist.raised : e.exc \notin {"UnicodeDecodeError", "JSONDecodeError"}
    /\ Len(hist.dispatched) <= Len(client.reqs)
    /\ \A k \in 1..Len(hist.dispatched) : hist.dispatched[k] = client.reqs[k]
    /\ (wire = <<>> /\ h.pc = "recv") => Len(hist.dispatched) = Len(client.reqs)

\* C8: a disconnect request handled a second time, or after the gdb process
\* has exited or been terminated, does not raise and still gets its response.
C8_DisconnectAlwaysAnswers ==
    \A k \in 1..Len(hist.dispatched) :
        LET r == hist.dispatched[k]
        IN  r.command = "disconnect" =>
              /\ \A e \in hist.raised : e.req /= r.seq
              /\ Left(k) => \E i \in ResponsesTo(r) : sent[i].success

DisconnectReceived == \E k \in 1..Len(hist.dispatched) :
                          hist.dispatched[k].command = "disconnect"

\* C9: once a disconnect request has been received, in whatever state the
\* session is, the gdb process of the session is eventually not alive and
\* the client connection is eventually closed.
C9_DisconnectEnds ==
    /\ DisconnectReceived ~> (sock = "closed")
    /\ DisconnectReceived ~> (gdb_process = 0 \/ procs[gdb_process].st = "dead")

\* gdb acknowledged the -exec-run of launch request r (^running, prompt) and
\* afterwards printed a *stopped record for it; the process is still there.
EntryStopReported(r) ==
    \E c \in 1..Len(hist.cmds) :
        /\ hist.cmds[c].k = "-exec-run" /\ hist.cmds[c].req = r.seq
        /\ procs[hist.cmds[c].p].st = "alive"
        /\ Line("running", c) \in procs[hist.cmds[c].p].em
        /\ Line("stopped_bp", c) \in procs[hist.cmds[c].p].em

\* C10: after a launch with stopOnEntry against a valid executable, when gdb
\* reports the stop at the entry breakpoint after acknowledging the run
\* command, the client receives a success response, then a process event,
\* then a stopped event with reason entry.  Stated of the state in which the
\* launch handler, the only sender of reason entry, has returned.
C10_EntryStopDelivered ==
    \A k \in 1..Len(hist.dispatched) :
        LET r == hist.dispatched[k]
        IN  (r.command = "launch" /\ stop_on_entry(r) /\ Left(k) /\ EntryStopReported(r)) =>
              \E i \in 1..Len(sent) : \E j \in 1..Len(sent) : \E l \in 1..Len(sent) :
                  /\ i < j /\ j < l
                  /\ sent[i].type = "response" /\ sent[i].request_seq = r.seq
                  /\ sent[i].success
                  /\ sent[j].type = "event" /\ sent[j].event = "process"
                  /\ sent[l].type = "event" /\ sent[l].event = "stopped"
                  /\ sent[l].reason = "entry"

\* C11: an initialize request gets a success response with the capability
\* object; the frame written next is the initialized event, and its seq is
\* the response's seq plus one; handling it writes no command to gdb.
C11_InitializeThenInitialized ==
    /\ \A k \in 1..Len(hist.dispatched) :
         LET r == hist.dispatched[k]
         IN  r.command = "initialize" =>
               /\ Left(k) => ResponsesTo(r) /= {}
               /\ \A c \in 1..Len(hist.cmds) : hist.cmds[c].req /= r.seq
    /\ \A i \in 1..Len(sent) :
         (sent[i].type = "response" /\ sent[i].command = "initialize") =>
             /\ sent[i].success /\ sent[i].body = Capabilities
             /\ Left(CHOOSE k \in 1..Len(hist.dispatched) :
                        hist.dispatched[k].seq = sent[i].request_seq) => i < Len(sent)
             /\ i < Len(sent) =>
                  /\ sent[i + 1].type = "event" /\ sent[i + 1].event = "initialized"
                  /\ sent[i + 1].seq = sent[i].seq + 1

\* C12: when launch fails, the request gets exactly one response, with
\* success false and the error text; no process or stopped event is sent
\* while it is handled; and no gdb process it spawned is left alive or is
\* still what self.gdb_process refers to.
C12_LaunchFailureLeavesNothing ==
    \A i \in 1..Len(sent) :
        (sent[i].type = "response" /\ sent[i].command = "launch" /\ ~sent[i].success) =>
            LET n == sent[i].request_seq
            IN  /\ Cardinality(ResponsesTo(RequestOf(n))) = 1
                /\ sent[i].message /= <<>>
                /\ \A j \in 1..Len(sent) :
                     (sent[j].type = "event" /\ sent[j].during = n) =>
                         sent[j].event \notin {"process", "stopped"}
                /\ \A p \in 1..Len(procs) :
                     procs[p].req = n => procs[p].st = "dead" /\ gdb_process /= p

\* C13: at most one gdb process spawned by the bridge is alive at any time.
C13_AtMostOneProcessAlive ==
    Cardinality({p \in 1..Len(procs) : procs[p].st = "alive"}) <= 1

\* C14: malformed input never ends the connection (which the client keeps
\* open): handle_client does not reach its finally clause, and the
\* well-formed requests written have all been dispatched once every byte has
\* been received and parsed.
C14_MalformedInputKeepsConnection ==
    /\ h.pc /= "finally" /\ sock /= "closed"
    /\ (sock = "open" /\ wire = <<>> /\ h.pc = "recv") =>
           Len(hist.dispatched) = Len(client.reqs)

\* C15: the debugger's output stream has at most one active reader: the
\* handler thread inside a drain and the stop watchers about to call
\* readline on the same process are never more than one.
C15_OneActiveReader ==
    \A p \in 1..Len(procs) :
        Cardinality({w \in 1..Len(watchers) :
                        watchers[w].pc = "readline" /\ watchers[w].p = p})
          + (IF h.pc = "drain" /\ gdb_process = p THEN 1 ELSE 0) <= 1

\* C16: for each *stopped line the debugger emits (one per resumed command,
\* named by the command's id), at most one stopped or terminated event is
\* sent to the client, whichever thread read the line.
C16_OneEventPerStop ==
    \A c \in 1..Len(hist.cmds) :
        Cardinality({i \in 1..Len(sent) :
                        /\ sent[i].type = "event"
                        /\ sent[i].event \in {"stopped", "terminated"}
                        /\ sent[i].cause = c}) <= 1

\* A stop watcher has read a *stopped line and its event has been written to
\* the client.
C16_Witness ==
    \E i \in 1..Len(sent) :
        /\ sent[i].type = "event" /\ sent[i].event \in {"stopped", "terminated"}
        /\ sent[i].by /= 0 /\ sent[i].cause /= 0

\* C17: the session moves from uninitialized to initialized before anything
\* else: a request whose handler spawns a debugger process, or writes a
\* command to the debugger, is dispatched after an initialize request.
C17_InitializedBeforeDebugger ==
    \A k \in 1..Len(hist.dispatched) :
        LET r == hist.dispatched[k]
        IN  (\/ \E p \in 1..Len(procs) : procs[p].req = r.seq
             \/ \E c \in 1..Len(hist.cmds) : hist.cmds[c].req = r.seq) =>
                \E j \in 1..(k - 1) : hist.dispatched[j].command = "initialize"

\* C18: terminate sends its response and does not stop the transport loop:
\* once its handler is over the terminate request has a response, and so has
\* every request with a handler that was dispatched after it.
C18_TerminateKeepsServing ==
    \A k \in 1..Len(hist.dispatched) :
        hist.dispatched[k].command = "terminate" =>
            \A k2 \in k..Len(hist.dispatched) :
                (hist.dispatched[k2].command \in Handlers /\ Left(k2)) =>
                    ResponsesTo(hist.dispatched[k2]) /= {}

\* C19: each accepted connection gets a fresh session: at the step that
\* accepts a connection the outbound sequence counter is at its initial value
\* and no debugger process is referenced.
C19_FreshSessionPerConnection ==
    [][(h.pc = "accept" /\ h'.pc = "recv") => (seq' = 0 /\ gdb_process' = 0)]_vars

\* C20: the text a drain returns for a submitted command holds output the
\* debugger produced in response to that command: when the drain after
\* -exec-run or -data-evaluate-expression (the last command written) returns
\* some text, a line of it answers that command.
C20_DrainReturnsOwnOutput ==
    (h.pc \in {"launch_respond", "evaluate_respond"} /\ h.out /= <<>>) =>
        \E j \in 1..Len(h.out) : h.out[j].c = Len(hist.cmds)

\* C21: a synchronous command read is bounded: a handler inside a drain
\* eventually leaves it (and goes on to its response), whatever the debugger
\* prints or does not print.
C21_DrainBounded == (h.pc = "drain") ~> (h.pc /= "drain")

\* C22: once the session has terminated (a disconnect or terminate request
\* has been handled and no request has followed it, or the client socket has
\* been closed) every stop watcher eventually ends.
C22_WatchersEnd ==
    /\ (sock = "closed") ~> (\A w \in 1..Len(watchers) : watchers[w].pc = "done")
    /\ \A k \in 1..MaxReqLive :
          (/\ Len(hist.dispatched) = k /\ Left(k)
           /\ hist.dispatched[k].command \in {"disconnect", "terminate"})
             ~> (\/ \A w \in 1..Len(watchers) : watchers[w].pc = "done"
                 \/ Len(hist.dispatched) > k)

\* C23: each stop watcher emits at most one event and has stopped reading
\* once it has emitted it (its thread is over); the events emitted by
\* watchers are never more than the resume requests handled.
C23_OneEventPerWatcher ==
    /\ \A w \in 1..Len(watchers) :
          LET mine == {i \in 1..Len(sent) : sent[i].by = w}
          IN  /\ Cardinality(mine) <= 1
              /\ mine /= {} => watchers[w].pc = "done"
    /\ Cardinality({i \in 1..Len(sent) : sent[i].by /= 0})
         <= Cardinality({k \in 1..Len(hist.dispatched) :
                            hist.dispatched[k].command \in ResumeCommands})

\* A watcher has emitted a stopped event and its thread is over while the
\* debugger process it read from is still alive.
C23_Witness ==
    \E w \in 1..Len(watchers) :
        /\ watchers[w].pc = "done" /\ watchers[w].p /= 0
        /\ procs[watchers[w].p].st = "alive"
        /\ \E i \in 1..Len(sent) : sent[i].by = w /\ sent[i].event = "stopped"

\* C24: the stop watcher classifies the line it reads: *stopped with reason
\* end-stepping-range makes it send a stopped event with reason step,
\* *stopped with a reason starting with exited a terminated event, any other
\* *stopped line a stopped event with reason breakpoint; every other line
\* (^running, the prompt, a result record) makes it send nothing and go round
\* the loop to read again.
C24_WatcherClassifiesLines ==
    [][\A w \in 1..Len(watchers) :
          (/\ watchers[w].pc = "readline" /\ watchers'[w].pc /= "readline"
           /\ CanReadLine(watchers[w].p)) =>
              LET l == Head(procs[watchers[w].p].out)
                  m == watchers'[w].msg
                  sending == watchers'[w].pc = "send_load" /\ m.type = "event"
              IN  CASE l.k = "stopped_step" ->
                         sending /\ m.event = "stopped" /\ m.reason = "step"
                    [] l.k = "stopped_exit" ->
                         sending /\ m.event = "terminated"
                    [] l.k = "stopped_bp" ->
                         sending /\ m.event = "stopped" /\ m.reason = "breakpoint"
                    [] OTHER ->
                         watchers'[w].pc = "check" /\ m = NoMsg]_vars

\* Watchers have read a line saying that the program exited and the
\* terminated event has been written to the client.
C24_Witness ==
    \E i \in 1..Len(sent) :
        /\ sent[i].by /= 0 /\ sent[i].event = "terminated"
        /\ \E p \in 1..Len(procs) : Line("stopped_exit", sent[i].cause) \in procs[p].em

\* C25: once a disconnect request has been handled the transport loop is
\* stopped: no request is dispatched to a handler after a disconnect request
\* on the same connection.
C25_NothingAfterDisconnect ==
    \A k \in 1..Len(hist.dispatched) :
        hist.dispatched[k].command = "disconnect" => k = Len(hist.dispatched)

\* The ids of the commands the handler of request n wrote, and their texts
\* in the order written.
CmdsOf(n) == {c \in 1..Len(hist.cmds) : hist.cmds[c].req = n}
TextsOf(n) == LET sel == SelectSeq(hist.cmds, LAMBDA e : e.req = n)
              IN  [j \in 1..Len(sel) |-> sel[j].k]

\* The breakpoints gdb process p holds: -break-delete without a number
\* deletes every breakpoint, -break-insert adds one; a command counts once gdb
\* has answered it with ^done.
Installed(p) ==
    {c \in 1..Len(hist.cmds) :
        /\ hist.cmds[c].p = p
        /\ hist.cmds[c].k \in {"-break-insert", "-break-insert main"}
        /\ Line("done", c) \in procs[p].em
        /\ ~\E d \in (c + 1)..Len(hist.cmds) :
               /\ hist.cmds[d].p = p /\ hist.cmds[d].k = "-break-delete"
               /\ Line("done", d) \in procs[p].em}

WrittenDuring(s, n) == SelectSeq(s, LAMBDA m : m.by = 0 /\ m.during = n)

\* C27: in a successful launch the handler emits the success response, then
\* the process event, then a stopped event if and only if the text drained
\* after -exec-run contains *stopped; that event has reason entry when
\* stopOnEntry was requested and breakpoint otherwise.
C27_LaunchMessageOrder ==
    [][/\ \A k \in 1..Len(hist'.dispatched) :
             LET r == hist'.dispatched[k]
                 ms == WrittenDuring(sent', r.seq)
             IN  (r.command = "launch" /\ Len(ms) >= 1 /\ ms[1].success) =>
                    /\ ms[1].type = "response" /\ Len(ms) <= 3
                    /\ Len(ms) >= 2 => ms[2].type = "event" /\ ms[2].event = "process"
                    /\ Len(ms) >= 3 => /\ ms[3].type = "event" /\ ms[3].event = "stopped"
                                       /\ ms[3].reason = (IF r.stopOnEntry /= "false" THEN "entry"
                                                          ELSE "breakpoint")
       /\ (h.pc = "launch_stopped" /\ h'.pc /= "launch_stopped") =>
             (OutputHasStopped(h.out) <=>
                 (h'.pc = "send_load" /\ h'.msg.type = "event" /\ h'.msg.event = "stopped"))
      ]_vars

\* A launch without stopOnEntry whose drain after -exec-run read the *stopped
\* line: response, process event and stopped event with reason breakpoint
\* have been written.
C27_Witness ==
    \E k \in 1..Len(hist.dispatched) :
        /\ hist.dispatched[k].command = "launch" /\ hist.dispatched[k].stopOnEntry = "false"
        /\ Len(WrittenDuring(sent, hist.dispatched[k].seq)) = 3
        /\ WrittenDuring(sent, hist.dispatched[k].seq)[3].cause /= 0

\* C28: during launch -break-insert main is written if and only if
\* stopOnEntry is requested (true, or absent from the arguments) and before
\* -exec-run; -exec-run is written exactly once in every successful launch.
\* At every moment what the launch handler has written is a prefix of that
\* list.
C28_EntryBreakpointThenRun ==
    \A k \in 1..Len(hist.dispatched) :
        LET r == hist.dispatched[k]
            want == (IF r.stopOnEntry \in {"true", "absent"}
                     THEN <<"-break-insert main">> ELSE <<>>) \o <<"-exec-run">>
            got == TextsOf(r.seq)
        IN  r.command = "launch" =>
                /\ Len(got) <= Len(want)
                /\ \A j \in 1..Len(got) : got[j] = want[j]
                /\ (\E i \in ResponsesTo(r) : sent[i].success) => got = want

\* A launch whose arguments have no stopOnEntry has succeeded after writing
\* -break-insert main and -exec-run.
C28_Witness ==
    \E k \in 1..Len(hist.dispatched) :
        /\ hist.dispatched[k].command = "launch"
        /\ hist.dispatched[k].stopOnEntry = "absent"
        /\ \E i \in ResponsesTo(hist.dispatched[k]) : sent[i].success
        /\ TextsOf(hist.dispatched[k].seq) = <<"-break-insert main", "-exec-run">>

\* C29: when the client socket closes or the handling loop ends with an
\* error, the debugger process the session refers to, if there is one, has
\* been sent its termination and the client socket has been closed when
\* handle_client returns, and this is still so when the next connection is
\* accepted.
C29_CleanupBeforeNextAccept ==
    [][/\ (h.pc /= "accept" /\ h'.pc = "accept") =>
             /\ sock' = "closed"
             /\ gdb_process' /= 0 => procs'[gdb_process'].st /= "alive"
       /\ (h.pc = "accept" /\ h'.pc = "recv" /\ client.conn >= 1) =>
             /\ sock = "closed"
             /\ gdb_process /= 0 => procs[gdb_process].st /= "alive"
      ]_vars

\* A second connection has been accepted after the first ended with an error
\* while its debugger process was alive: the process has its SIGTERM.
C29_Witness ==
    /\ client.conn = 2 /\ hist.raised /= {}
    /\ gdb_process /= 0 /\ procs[gdb_process].st = "signalled"

\* C30: command writes to the debugger are mutually exclusive.  The lock is
\* held exactly while the handler thread is inside the write-and-flush
\* section, and no stop watcher is ever inside it; the lock is free whenever
\* the handler thread is outside the section, after a failed write too, so
\* the thread about to take it is not kept waiting; and what gdb has in its
\* input is whole command lines, in the order they were written.
C30_WritesMutuallyExclusive ==
    /\ gdb_lock = "handler" <=> h.pc \in {"terminate_abort", "terminate_exit"}
    /\ gdb_lock \in {"unlocked", "handler"}
    /\ \A p \in 1..Len(procs) :
          \A j \in 1..Len(procs[p].stdin) :
              LET e == procs[p].stdin[j]
              IN  /\ e.id \in 1..Len(hist.cmds)
                  /\ hist.cmds[e.id].k = e.k /\ hist.cmds[e.id].p = p
                  /\ j > 1 => procs[p].stdin[j - 1].id < e.id

\* A write inside the section has failed (gdb had exited when terminate wrote
\* its second command), and the lock is free again.
C30_Witness ==
    /\ gdb_lock = "unlocked"
    /\ \E e \in hist.raised :
          /\ e.exc = "BrokenPipeError"
          /\ RequestOf(e.req).command = "terminate"
          /\ \E c \in CmdsOf(e.req) : hist.cmds[c].k = "-exec-abort"

\* C31: the transport serves one client at a time.  A connection is accepted
\* only by the handler thread in the accept loop, after handle_client of the
\* previous connection has returned and closed its socket, with no request
\* being handled and an empty buffer; the requests dispatched are grouped by
\* connection (no request of an earlier connection is dispatched after one of
\* a later connection).
C31_OneClientAtATime ==
    [][/\ client.conn' /= client.conn =>
             /\ h.pc = "accept" /\ h'.pc = "recv" /\ h'.req = NoReq
             /\ client.conn >= 1 => sock = "closed"
             /\ buffer' = <<>>
       /\ \A i \in 1..Len(hist'.conns) : \A j \in 1..Len(hist'.conns) :
             i < j => hist'.conns[i] <= hist'.conns[j]
       /\ \A i \in 1..Len(hist'.conns) : hist'.conns[i] <= client'.conn
      ]_vars

\* Requests of two connections have been dispatched.
C31_Witness ==
    /\ client.conn = 2
    /\ \E i \in 1..Len(hist.conns) : hist.conns[i] = 1
    /\ \E i \in 1..Len(hist.conns) : hist.conns[i] = 2

\* C32: initialize, configurationDone, threads and scopes write no command
\* to the debugger and leave self.gdb_process and self.running as they are
\* (self.breakpoints is assigned nowhere after __init__): a step of their
\* handlers changes nothing but the handler's locals, self.seq (one increment
\* of the value read, per message) and the frames written.  They send two
\* messages (initialize) or one, and with no stop watcher sending at the same
\* time the counter is the number of messages sent.
C32_AcknowledgeOnly ==
    /\ [][(/\ h.req.command \in {"initialize", "configurationDone", "threads", "scopes"}
           /\ h.pc \notin {"parse", "recv", "finally", "accept", "exit"}
           /\ h' /= h) =>
              /\ UNCHANGED <<harness, gdb_process, running, gdb_lock, procs, watchers, buffer, sock>>
              /\ hist'.cmds = hist.cmds /\ hist'.raised = hist.raised
              /\ seq' /= seq => (h.pc = "send_store" /\ seq' = h.tmp + 1)
              /\ sent' /= sent => (h.pc = "send_message" /\ Len(sent') = Len(sent) + 1)
              /\ h'.pc \notin {"drain", "finally"}]_vars
    /\ [](\A k \in 1..Len(hist.dispatched) :
             LET r == hist.dispatched[k]
             IN  r.command \in {"initialize", "configurationDone", "threads", "scopes"} =>
                   /\ CmdsOf(r.seq) = {}
                   /\ Len(WrittenDuring(sent, r.seq))
                         <= (IF r.command = "initialize" THEN 2 ELSE 1)
                   /\ Left(k) => Len(WrittenDuring(sent, r.seq))
                                    = (IF r.command = "initialize" THEN 2 ELSE 1))
    /\ []((watchers = <<>> /\ h.pc \in {"parse", "recv", "dispatch"}) => seq = Len(sent))

\* With a debugger process alive and its program running, a threads, a
\* scopes or a configurationDone request has been answered.
C32_Witness ==
    /\ gdb_process /= 0 /\ procs[gdb_process].st = "alive" /\ procs[gdb_process].dbg /= 0
    /\ \E i \in 1..Len(sent) :
          /\ sent[i].type = "response" /\ sent[i].success
          /\ sent[i].command \in {"configurationDone", "threads", "scopes"}

\* A complete frame with a JSON body starts somewhere in buf.
FrameAnywhere(buf) ==
    \E i \in 1..Len(buf) :
        LET rest == SubSeq(buf, i, Len(buf))
        IN  FrameComplete(rest) /\ JsonOk(FrameBody(rest))

\* C33: the decoder finds a frame wherever its header occurs in the buffer:
\* it reports need-more-data (the handling loop goes back to recv) only while
\* no complete well-formed frame is in the buffer, so a frame that follows
\* bytes that form no header is still decoded and dispatched.
C33_FrameFoundAnywhere ==
    /\ h.pc = "recv" => ~FrameAnywhere(buffer)
    /\ (h.pc = "recv" /\ wire = <<>>) => Len(hist.dispatched) = Len(client.reqs)

\* C34: every *stopped line the debugger emits after a resume command
\* results in a stopped or terminated event sent to the client: while the
\* connection is open such a line is still unread in the pipe, or a stop
\* watcher has read it and is sending its event, or the event has been
\* written; it is never in the text a synchronous drain has read.
C34_StopLineReachesClient ==
    \A p \in 1..Len(procs) : \A l \in procs[p].em :
        (/\ IsStopped(l) /\ hist.cmds[l.c].k \in ResumeGdbCommands
         /\ sock = "open") =>
            /\ \A j \in 1..Len(h.out) : h.out[j] /= l
            /\ \/ \E j \in 1..Len(procs[p].out) : procs[p].out[j] = l
               \/ \E w \in 1..Len(watchers) : watchers[w].msg.cause = l.c
               \/ \E i \in 1..Len(sent) :
                     /\ sent[i].type = "event" /\ sent[i].cause = l.c
                     /\ sent[i].event \in {"stopped", "terminated"}

\* The connection on which request n was dispatched.
ConnOf(n) == hist.conns[CHOOSE k \in 1..Len(hist.dispatched) : hist.dispatched[k].seq = n]

\* C35: a stop watcher started in one client connection never reads the
\* output of a debugger process launched in a later connection, and no
\* stopped or terminated event written on a connection comes from a watcher
\* started during an earlier connection.  (The watcher's connection is that
\* of the resume request whose command it was started for.)
C35_WatcherStaysInItsConnection ==
    \A w \in 1..Len(watchers) :
        watchers[w].cmd /= 0 =>
            LET mine == ConnOf(hist.cmds[watchers[w].cmd].req)
            IN  /\ (watchers[w].pc = "readline") =>
                       ConnOf(procs[watchers[w].p].req) <= mine
                /\ \A i \in 1..Len(sent) : sent[i].by = w => sent[i].conn = mine

\* C36: outbound frames are written to the client socket whole: the bytes
\* one send call wrote of a frame are followed at once by the rest of that
\* frame, never by bytes of a frame another thread sends.
C36_FramesWrittenWhole ==
    \A i \in 1..Len(sent) :
        /\ (sent[i].part = "head" /\ i < Len(sent)) =>
               /\ sent[i + 1].part = "tail"
               /\ sent[i + 1].by = sent[i].by /\ sent[i + 1].seq = sent[i].seq
        /\ sent[i].part = "tail" =>
               /\ i > 1 /\ sent[i - 1].part = "head"
               /\ sent[i - 1].by = sent[i].by /\ sent[i - 1].seq = sent[i].seq

\* C37: at most one stop-watcher thread is alive at any time: the watchers
\* started for resume commands written to the debugger that are inside
\* readline on the debugger's output are never more than one.
C37_AtMostOneWatcher ==
    Cardinality({w \in 1..Len(watchers) :
                    watchers[w].cmd /= 0 /\ watchers[w].pc = "readline"}) <= 1

\* C38: after the bridge has terminated a debugger process (terminate() in
\* handle_disconnect, handle_terminate or the cleanup of handle_client) it
\* never again writes a command to that process's input: no step writes a
\* command to a process that has been sent its termination.
C38_NoWriteAfterTerminate ==
    [][\A c \in (Len(hist.cmds) + 1)..Len(hist'.cmds) :
          procs[hist'.cmds[c].p].st \notin {"signalled", "dead"}]_vars

\* C39: once a disconnect request has been handled, the accept loop exits
\* when the handling loop of the connection returns and no further client
\* connection is accepted; a connection that ends without a disconnect
\* leaves the bridge accepting.  Stated of the accept loop's step: it accepts
\* a connection only if no disconnect request has been dispatched so far,
\* and it exits only if one has.
C39_DisconnectEndsAccepting ==
    [][(h.pc = "accept" /\ h'.pc /= "accept") =>
          /\ DisconnectReceived => h'.pc = "exit" /\ client'.conn = client.conn
          /\ ~DisconnectReceived => h'.pc = "recv" /\ client'.conn = client.conn + 1
      ]_vars

---------------------------------------------------------------------------
(* The load harness (scripts/stress_test.py): main starts the worker threads,
   which share the request counter next_request_id under next_lock. *)

\* main, from the choice between a duration and a request limit to the start
\* of the threads: args.duration > 0 sets end_at and leaves max_requests None,
\* otherwise args.requests (> 0, or main exits) is the limit.  A thread that
\* has been created and not yet started is a worker that has not yet taken a
\* step.  Worker w of the model is worker_id w - 1.
main ==
    /\ workers = <<>>
    /\ \E duration \in {0, 1}, args_requests \in 1..MaxRequests,
          concurrency \in 1..MaxConcurrency :
          /\ max_requests' = IF duration > 0 THEN 0 ELSE args_requests
          /\ end_at' = IF duration > 0 THEN 1 ELSE 0
          /\ workers' = [w \in 1..concurrency |-> [pc |-> "loop", req_id |-> 0]]
    /\ next_request_id' = 0
    /\ next_lock' = 0
    /\ UNCHANGED requests
    /\ UNCHANGED <<running, seq, gdb_process, gdb_lock, sock, buffer, h, watchers, procs,
                   wire, client, sent, hist>>

\* A lock that excludes nobody.
next_lock_acquire_NoExclusion(w) ==
    /\ workers[w].pc = "lock"
    /\ next_lock' = w
    /\ workers' = [workers EXCEPT ![w].pc = "read"]
    /\ UNCHANGED <<max_requests, end_at, next_request_id, requests>>

\* with next_lock: the worker enters when the lock is free.
next_lock_acquire(w) ==
    /\ workers[w].pc = "lock"
    /\ next_lock = 0
    /\ next_lock' = w
    /\ workers' = [workers EXCEPT ![w].pc = "read"]
    /\ UNCHANGED <<max_requests, end_at, next_request_id, requests>>

\* One step of worker w's loop.  The clock is the environment's: with an
\* end_at, the test at the head of the loop may go either way.  The request
\* returns a status or raises: the worker counts it and goes on either way.
run_worker(w) ==
    /\ UNCHANGED <<running, seq, gdb_process, gdb_lock, sock, buffer, h, watchers, procs,
                   wire, client, sent, hist>>
    /\ \/ /\ workers[w].pc = "loop"
          /\ \/ /\ end_at /= 0
                /\ workers' = [workers EXCEPT ![w].pc = "done"]
             \/ /\ max_requests /= 0 \/ next_request_id < MaxIds
                /\ workers' = [workers EXCEPT ![w].pc = "lock"]
          /\ UNCHANGED <<max_requests, end_at, next_request_id, next_lock, requests>>
       \/ next_lock_acquire(w)
       \/ /\ workers[w].pc = "read"
          /\ workers' = [workers EXCEPT ![w].pc = "incr", ![w].req_id = next_request_id]
          /\ UNCHANGED <<max_requests, end_at, next_request_id, next_lock, requests>>
       \/ /\ workers[w].pc = "incr"
          /\ next_request_id' = next_request_id + 1
          /\ next_lock' = 0
          /\ workers' = [workers EXCEPT ![w].pc = "check"]
          /\ UNCHANGED <<max_requests, end_at, requests>>
       \/ /\ workers[w].pc = "check"
          /\ workers' = [workers EXCEPT
                           ![w].pc = IF max_requests /= 0 /\ workers[w].req_id >= max_requests
                                     THEN "done" ELSE "request"]
          /\ UNCHANGED <<max_requests, end_at, next_request_id, next_lock, requests>>
       \/ /\ workers[w].pc = "request"
          /\ requests' = Append(requests, [worker |-> w, req_id |-> workers[w].req_id])
          /\ workers' = [workers EXCEPT ![w].pc = "loop"]
          /\ UNCHANGED <<max_requests, end_at, next_request_id, next_lock>>

\* The harness alone.  Every started thread keeps being scheduled, and a
\* request ends: the client has a timeout.
NextHarness ==
    \/ main
    \/ \E w \in DOMAIN workers : run_worker(w)

SpecHarness ==
    /\ Init
    /\ [][NextHarness]_vars
    /\ \A w \in 1..MaxConcurrency : WF_vars(w \in DOMAIN workers /\ run_worker(w))

\* Every worker thread has left its loop.
AllDone == workers /= <<>> /\ \A w \in DOMAIN workers : workers[w].pc = "done"

\* C40: in a run of the load harness with a request limit and no duration,
\* the workers together issue exactly max_requests requests: a worker reads
\* and advances the counter only while it holds next_lock, no two workers
\* hold the same request id, no id is issued twice, no request carries an id
\* at or above the limit, every worker terminates, and when all have, the
\* ids issued are exactly 0 .. max_requests - 1.
C40_ExactlyMaxRequests ==
    /\ [](max_requests /= 0 =>
            /\ \A w \in DOMAIN workers :
                  workers[w].pc \in {"read", "incr"} => next_lock = w
            /\ \A w, v \in DOMAIN workers :
                  (/\ w /= v
                   /\ workers[w].pc \in {"incr", "check", "request"}
                   /\ workers[v].pc \in {"incr", "check", "request"})
                  => workers[w].req_id /= workers[v].req_id
            /\ \A i, j \in 1..Len(requests) :
                  requests[i].req_id = requests[j].req_id => i = j
            /\ \A i \in 1..Len(requests) : requests[i].req_id \in 0..(max_requests - 1)
            /\ AllDone =>
                  /\ Len(requests) = max_requests
                  /\ {requests[i].req_id : i \in 1..Len(requests)} = 0..(max_requests - 1))
    /\ ((max_requests /= 0) ~> AllDone)

\* A run with a limit has ended, and two workers have shared its requests.
C40_Witness ==
    /\ max_requests >= 2
    /\ AllDone
    /\ \E i, j \in 1..Len(requests) : requests[i].worker /= requests[j].worker

===========================================================================
